---- MODULE Spec2Model ----
(***************************************************************************)
(* Benchmark runner of the container-runtime performance harness:          *)
(* BaseExecutor.run_test / run_concurrent_test (src/executor/base.py)      *)
(* driving an abstract probe (setup, teardown, run_single_test), and the   *)
(* run aggregator _generate_summary.                                       *)
(***************************************************************************)
EXTENDS Integers, Sequences, FiniteSets, TLC

\* ---------------------------------------------------------------- bounds
MaxConcurrency == 3
MaxIterations == 2
MaxWarmup == 1
\* run_single_test calls of one concurrent run (concurrency * iterations)
MaxCalls == 4
\* the pure-function specification of _generate_summary
MaxLen == 3
MaxDuration == 2
MaxData == 5
MaxResults == 3
MaxTests == 3
MaxValue == 2

\* ------------------------------------------------------ exception texts
\* str(e) of the exceptions the probe and the aggregator raise; an
\* error_message is a sequence of texts, None being the empty sequence.
SetupError == "setup failed"
TeardownError == "teardown failed"
ProbeError == "run_single_test failed"
ZeroDivisionError == "division by zero"
NoMessage == <<>>
StrOf(e) == <<e>>
ConcurrentErrors(errors) == <<"Concurrent test errors: ">> \o errors

TestName == "create_container"
PlainName(name) == <<name>>
ConcurrentName(name, c) == <<name, "_concurrent_", c>>

\* ------------------------------------------------------------- samples
PerformanceMetrics(s, d, w) == [success |-> s, duration |-> d, warmup |-> w]

\* What one run_single_test call hands back: no sample, one successful
\* sample, one failed operation that took time, one zero-duration failure
\* sample (the client executor's error sample), or a two-step lifecycle
\* whose second step failed.  The probe either leaves the warmup field at
\* its default or copies context.warmup.
ProbeReturns(warm) ==
  UNION { { <<>>,
            << PerformanceMetrics(TRUE, 1, wf) >>,
            << PerformanceMetrics(FALSE, 2, wf) >>,
            << PerformanceMetrics(FALSE, 0, wf) >>,
            << PerformanceMetrics(TRUE, 1, wf), PerformanceMetrics(FALSE, 0, wf) >> }
          : wf \in {FALSE, warm} }

\* for m in warmup_metrics: m.warmup = True
TagWarmup(ms) == [n \in 1..Len(ms) |-> [ms[n] EXCEPT !.warmup = TRUE]]

\* ---------------------------------------------------------- aggregator
RECURSIVE SumSeq(_)
SumSeq(s) == IF s = <<>> THEN 0 ELSE Head(s) + SumSeq(Tail(s))

MinSeq(s) == CHOOSE x \in {s[n] : n \in 1..Len(s)} : \A n \in 1..Len(s) : x <= s[n]
MaxSeq(s) == CHOOSE x \in {s[n] : n \in 1..Len(s)} : \A n \in 1..Len(s) : x >= s[n]

\* a quotient a / b, kept exact as the pair <<a, b>>
Quot(a, b) == <<a, b>>

\* the list sorted the wrong way round
percentileDescending(data, p) ==
  IF data = <<>> THEN 0
  ELSE LET data_sorted == SortSeq(data, LAMBDA a, b : a > b)
           index == (Len(data_sorted) * p) \div 100
       IN  IF index >= Len(data_sorted)
           THEN data_sorted[Len(data_sorted)]
           ELSE data_sorted[index + 1]

percentile(data, p) ==
  IF data = <<>> THEN 0
  ELSE LET data_sorted == SortSeq(data, LAMBDA a, b : a < b)
           index == (Len(data_sorted) * p) \div 100
       IN  IF index >= Len(data_sorted)
           THEN data_sorted[Len(data_sorted)]
           ELSE data_sorted[index + 1]

MeasuredOf(metrics) == SelectSeq(metrics, LAMBDA m : ~m.warmup)
DurationsOf(ms) == [n \in 1..Len(ms) |-> ms[n].duration]

\* the empty dict {}
EmptySummary == [f \in {} |-> 0]

\* len(test_metrics) / sum(durations) divides by zero when every measured
\* duration is 0: _generate_summary then raises ZeroDivisionError.
generate_summary_raises(metrics) ==
  /\ MeasuredOf(metrics) # <<>>
  /\ SumSeq(DurationsOf(MeasuredOf(metrics))) = 0

SummaryFields ==
  { "total_iterations", "successful_iterations", "failed_iterations",
    "success_rate", "avg_duration", "min_duration", "max_duration",
    "p50_duration", "p95_duration", "p99_duration", "total_time",
    "operations_per_second" }

\* a zero-valued summary where the code returns {}
generate_summary_zero_value(metrics) ==
  IF MeasuredOf(metrics) = <<>> THEN [f \in SummaryFields |-> 0]
  ELSE LET test_metrics == MeasuredOf(metrics)
           durations == DurationsOf(test_metrics)
       IN  [ total_iterations |-> Len(test_metrics),
             successful_iterations |-> Len(SelectSeq(test_metrics, LAMBDA m : m.success)),
             failed_iterations |-> Len(SelectSeq(test_metrics, LAMBDA m : ~m.success)),
             success_rate |-> Quot(Len(SelectSeq(test_metrics, LAMBDA m : m.success)),
                                   Len(test_metrics)),
             avg_duration |-> Quot(SumSeq(durations), Len(durations)),
             min_duration |-> MinSeq(durations),
             max_duration |-> MaxSeq(durations),
             p50_duration |-> percentile(durations, 50),
             p95_duration |-> percentile(durations, 95),
             p99_duration |-> percentile(durations, 99),
             total_time |-> SumSeq(durations),
             operations_per_second |-> Quot(Len(test_metrics), SumSeq(durations)) ]

generate_summary(metrics) ==
  IF metrics = <<>> THEN EmptySummary
  ELSE LET test_metrics == MeasuredOf(metrics)
           durations == DurationsOf(test_metrics)
           successful == SelectSeq(test_metrics, LAMBDA m : m.success)
           failed == SelectSeq(test_metrics, LAMBDA m : ~m.success)
       IN  IF test_metrics = <<>> THEN EmptySummary
           ELSE [ total_iterations |-> Len(test_metrics),
                  successful_iterations |-> Len(successful),
                  failed_iterations |-> Len(failed),
                  success_rate |-> Quot(Len(successful), Len(test_metrics)),
                  avg_duration |-> Quot(SumSeq(durations), Len(durations)),
                  min_duration |-> MinSeq(durations),
                  max_duration |-> MaxSeq(durations),
                  p50_duration |-> percentile(durations, 50),
                  p95_duration |-> percentile(durations, 95),
                  p99_duration |-> percentile(durations, 99),
                  total_time |-> SumSeq(durations),
                  operations_per_second |-> Quot(Len(test_metrics), SumSeq(durations)) ]

\* success meaning only "the run completed"
SequentialSuccessCompleted(summary) == summary # EmptySummary

\* success of the normal return of run_test
SequentialSuccess(summary) ==
  IF summary = EmptySummary THEN FALSE ELSE summary.failed_iterations = 0

\* success of the normal return of run_concurrent_test
ConcurrentSuccess(errors, summary) ==
  IF summary # EmptySummary
  THEN (Len(errors) = 0) /\ (summary.failed_iterations = 0)
  ELSE FALSE

TestResult(name, metrics, summary, success, msg) ==
  [ test_name |-> name, metrics |-> metrics, summary |-> summary,
    success |-> success, error_message |-> msg ]

\* the caught error is not surfaced
FailedResultNoMessage(name, e) == TestResult(name, <<>>, EmptySummary, FALSE, NoMessage)

FailedResult(name, e) == TestResult(name, <<>>, EmptySummary, FALSE, StrOf(e))

NoResult == [ test_name |-> <<>> ]

\* ------------------------------------------------------------- state
VARIABLES
  config,          \* self.config: concurrency, iterations, warmup_iterations
  entry,           \* the top-level call: "run_test" or "run_concurrent_test"
  pc,              \* position of the runner coroutine
  i,               \* loop index of run_test's warmup / measured loop
  metrics,         \* run_test's local list of samples
  tasks,           \* the tasks run_concurrent_test created (task_id + 1)
  errors,          \* run_concurrent_test's local error list
  exc,             \* the exception the except branch is handling
  result,          \* the TestResult handed to the caller
  escaped,         \* the exception that left the top-level call
  setup_calls,     \* calls of probe.setup so far
  teardown_calls,  \* calls of probe.teardown so far
  rst_calls,       \* calls of probe.run_single_test so far
  late_call,       \* a run_single_test call started after a teardown call
  raised_log,      \* exceptions raised into the runner coroutine, in order
  call_log,        \* run_single_test calls of the sequential loops, in order
  executor,        \* the probe: abstract, or the CRI / client executor
  timed_out,       \* operation commands that timed out during iterations
  duration_list,   \* the duration list handed to the percentile routines
  percentiles,     \* what each percentile routine returned for it
  test_results,    \* the TestResults handed to DataAnalyzer.process
  baseline_engine, \* DataAnalyzer.baseline_engine
  processed_data,  \* what DataAnalyzer.process returned
  test_name,       \* the test name handed to run_test / run_concurrent_test
  created,         \* CRIExecutor._created: <<kind, id>> in creation order
  tmpdir,          \* CRIExecutor._tmpdir: a directory number, 0 for None
  commands,        \* the crictl commands issued so far, in order
  cleanup_items    \* _cleanup_created's local list items, a copy of _created

\* the state of the CRI executor
resource_vars == << test_name, created, tmpdir, commands, cleanup_items >>

\* the state of the percentile routines, of the analyzer and of the executor
other_vars == << duration_list, percentiles, test_results, baseline_engine,
                processed_data, resource_vars >>

vars == << config, entry, pc, i, metrics, tasks, errors, exc, result, escaped,
           setup_calls, teardown_calls, rst_calls, late_call, raised_log,
           call_log, executor, timed_out, other_vars >>

\* nothing computed yet
Nothing == [f \in {} |-> 0]

\* the executor holds nothing: no resource recorded, no directory, no command
ResourcesIdle ==
  /\ test_name = TestName
  /\ created = <<>>
  /\ tmpdir = 0
  /\ commands = <<>>
  /\ cleanup_items = <<>>

OthersIdle ==
  /\ duration_list = <<>>
  /\ percentiles = Nothing
  /\ test_results = <<>>
  /\ baseline_engine = ""
  /\ processed_data = Nothing
  /\ ResourcesIdle

Concurrent == entry = "run_concurrent_test" \/ config.concurrency > 1

\* utils/validators.py rejects iterations <= 0 and concurrency <= 0
Configs ==
  { c \in [ concurrency : 1..MaxConcurrency,
            iterations : 1..MaxIterations,
            warmup_iterations : 0..MaxWarmup ] :
      c.concurrency * c.iterations <= MaxCalls }

Init ==
  /\ config \in Configs
  /\ entry \in {"run_test", "run_concurrent_test"}
  /\ pc = IF entry = "run_test" THEN "rt_setup" ELSE "ct_setup"
  /\ i = 0
  /\ metrics = <<>>
  /\ tasks = <<>>
  /\ errors = <<>>
  /\ exc = ""
  /\ result = NoResult
  /\ escaped = ""
  /\ setup_calls = 0
  /\ teardown_calls = 0
  /\ rst_calls = 0
  /\ late_call = FALSE
  /\ raised_log = <<>>
  /\ call_log = <<>>
  /\ executor = "probe"
  /\ timed_out = 0
  /\ OthersIdle

\* ------------------------------------------------------ run_test (79-169)
\* one run_single_test call of the sequential loops: its TestContext and,
\* once it has returned, the samples run_test recorded for it
Call(warmup, iteration) ==
  [warmup |-> warmup, iteration |-> iteration, done |-> FALSE, samples |-> <<>>]

Returns(log, samples) ==
  [log EXCEPT ![Len(log)] = [@ EXCEPT !.done = TRUE, !.samples = samples]]

\* where the sequential loops stand once warmup iteration n is the next one
AfterWarmupOneMore(n) ==
  IF n <= config.warmup_iterations THEN "rt_warmup" ELSE "rt_measure"

AfterWarmup(n) ==
  IF n < config.warmup_iterations THEN "rt_warmup" ELSE "rt_measure"

\* where the measured loop stands once iteration n is the next one
AfterMeasure(n) == IF n < config.iterations THEN "rt_measure" ELSE "rt_teardown"

\* a probe call or the aggregator raises e inside a try block
Raise(e, handler) ==
  /\ pc' = handler
  /\ exc' = e
  /\ raised_log' = Append(raised_log, e)

\* line 85: await self.setup(), then the mode dispatch of line 88
RunTestSetup ==
  /\ pc = "rt_setup"
  /\ setup_calls' = setup_calls + 1
  /\ \/ /\ pc' = IF config.concurrency > 1 THEN "ct_setup" ELSE AfterWarmup(0)
        /\ UNCHANGED << exc, raised_log >>
     \/ Raise(SetupError, "rt_except")
  /\ UNCHANGED << config, entry, i, metrics, tasks, errors, result, escaped,
                  teardown_calls, rst_calls, late_call,
                  executor, timed_out, call_log, other_vars >>

\* line 104: the warmup call is issued
WarmupCall ==
  /\ pc = "rt_warmup"
  /\ pc' = "rt_warmup_wait"
  /\ call_log' = Append(call_log, Call(TRUE, i))
  /\ rst_calls' = rst_calls + 1
  /\ late_call' = (late_call \/ teardown_calls > 0)
  /\ UNCHANGED << config, entry, i, metrics, tasks, errors, exc, result, escaped,
                  setup_calls, teardown_calls, raised_log,
                  executor, timed_out, other_vars >>

\* lines 104-107: the warmup call returns, its samples are tagged and kept
WarmupReturn ==
  /\ pc = "rt_warmup_wait"
  /\ \E warmup_metrics \in ProbeReturns(TRUE) :
       /\ metrics' = metrics \o TagWarmup(warmup_metrics)
       /\ call_log' = Returns(call_log, TagWarmup(warmup_metrics))
  /\ IF i + 1 < config.warmup_iterations
     THEN i' = i + 1 /\ pc' = "rt_warmup"
     ELSE i' = 0 /\ pc' = AfterWarmup(i + 1)
  /\ UNCHANGED << config, entry, tasks, errors, exc, result, escaped,
                  setup_calls, teardown_calls, rst_calls, late_call, raised_log,
                  executor, timed_out, other_vars >>

\* line 104: the warmup call raises
WarmupRaise ==
  /\ pc = "rt_warmup_wait"
  /\ Raise(ProbeError, "rt_except")
  /\ UNCHANGED << config, entry, i, metrics, tasks, errors, result, escaped,
                  setup_calls, teardown_calls, rst_calls, late_call,
                  executor, timed_out, call_log, other_vars >>

\* line 121: the measured call is issued
MeasureCall ==
  /\ pc = "rt_measure"
  /\ pc' = "rt_measure_wait"
  /\ call_log' = Append(call_log, Call(FALSE, i))
  /\ rst_calls' = rst_calls + 1
  /\ late_call' = (late_call \/ teardown_calls > 0)
  /\ UNCHANGED << config, entry, i, metrics, tasks, errors, exc, result, escaped,
                  setup_calls, teardown_calls, raised_log,
                  executor, timed_out, other_vars >>

\* lines 121-122: the measured call returns and its samples are kept
MeasureReturn ==
  /\ pc = "rt_measure_wait"
  /\ \E test_metrics \in ProbeReturns(FALSE) :
       /\ metrics' = metrics \o test_metrics
       /\ call_log' = Returns(call_log, test_metrics)
  /\ i' = i + 1
  /\ pc' = AfterMeasure(i + 1)
  /\ UNCHANGED << config, entry, tasks, errors, exc, result, escaped,
                  setup_calls, teardown_calls, rst_calls, late_call, raised_log,
                  executor, timed_out, other_vars >>

\* line 121: the measured call raises
MeasureRaise ==
  /\ pc = "rt_measure_wait"
  /\ Raise(ProbeError, "rt_except")
  /\ UNCHANGED << config, entry, i, metrics, tasks, errors, result, escaped,
                  setup_calls, teardown_calls, rst_calls, late_call,
                  executor, timed_out, call_log, other_vars >>

\* lines 128-153: teardown, summary, success flag, the normal return
RunTestTeardown ==
  /\ pc = "rt_teardown"
  /\ teardown_calls' = teardown_calls + 1
  /\ \/ /\ ~generate_summary_raises(metrics)
        /\ LET summary == generate_summary(metrics)
           IN  result' = TestResult(PlainName(test_name), metrics, summary,
                                    SequentialSuccess(summary), NoMessage)
        /\ pc' = "done"
        /\ UNCHANGED << exc, raised_log >>
     \/ /\ generate_summary_raises(metrics)
        /\ Raise(ZeroDivisionError, "rt_except")
        /\ UNCHANGED result
     \/ /\ Raise(TeardownError, "rt_except")
        /\ UNCHANGED result
  /\ UNCHANGED << config, entry, i, metrics, tasks, errors, escaped,
                  setup_calls, rst_calls, late_call,
                  executor, timed_out, call_log, other_vars >>

\* an except branch that returns without cleaning up
RunTestExceptNoTeardown ==
  /\ pc = "rt_except"
  /\ result' = FailedResult(PlainName(test_name), exc)
  /\ pc' = "done"
  /\ UNCHANGED << config, entry, i, metrics, tasks, errors, exc, escaped,
                  setup_calls, teardown_calls, rst_calls, late_call, raised_log,
                  executor, timed_out, call_log, other_vars >>

\* lines 155-169: the except branch calls teardown again, outside any try
RunTestExcept ==
  /\ pc = "rt_except"
  /\ teardown_calls' = teardown_calls + 1
  /\ \/ /\ result' = FailedResult(PlainName(test_name), exc)
        /\ pc' = "done"
        /\ UNCHANGED << escaped, raised_log >>
     \/ /\ pc' = "raised"
        /\ escaped' = TeardownError
        /\ raised_log' = Append(raised_log, TeardownError)
        /\ UNCHANGED result
  /\ UNCHANGED << config, entry, i, metrics, tasks, errors, exc,
                  setup_calls, rst_calls, late_call,
                  executor, timed_out, call_log, other_vars >>

\* ------------------------------------------ run_concurrent_test (212-293)
Task(status, n, ms) == [status |-> status, i |-> n, metrics |-> ms]

Finished(t) == t.status \in {"done", "failed"}

\* lines 217-223: setup, then one task per task_id
ConcurrentSetup ==
  /\ pc = "ct_setup"
  /\ setup_calls' = setup_calls + 1
  /\ \/ /\ tasks' = [t \in 1..config.concurrency |-> Task("ready", 0, <<>>)]
        /\ pc' = "ct_gather"
        /\ UNCHANGED << exc, raised_log >>
     \/ /\ Raise(SetupError, "ct_except")
        /\ UNCHANGED tasks
  /\ UNCHANGED << config, entry, i, metrics, errors, result, escaped,
                  teardown_calls, rst_calls, late_call,
                  executor, timed_out, call_log, other_vars >>

\* The tasks are scheduled by the event loop, not by the runner coroutine:
\* a task steps whenever it exists and has work left.
\* line 290: task t issues its next run_single_test call
TaskCall(t) ==
  /\ tasks[t].status = "ready"
  /\ tasks[t].i < config.iterations
  /\ tasks' = [tasks EXCEPT ![t].status = "awaiting"]
  /\ rst_calls' = rst_calls + 1
  /\ late_call' = (late_call \/ teardown_calls > 0)
  /\ UNCHANGED << config, entry, pc, i, metrics, errors, exc, result, escaped,
                  setup_calls, teardown_calls, raised_log,
                  executor, timed_out, call_log, other_vars >>

\* lines 290-291: the call of task t returns and its samples are kept
TaskReturn(t) ==
  /\ tasks[t].status = "awaiting"
  /\ \E test_metrics \in ProbeReturns(FALSE) :
       tasks' = [tasks EXCEPT ![t] =
                   Task("ready", @.i + 1, @.metrics \o test_metrics)]
  /\ UNCHANGED << config, entry, pc, i, metrics, errors, exc, result, escaped,
                  setup_calls, teardown_calls, rst_calls, late_call, raised_log,
                  executor, timed_out, call_log, other_vars >>

\* line 290: the call of task t raises; the task ends with the exception
TaskRaise(t) ==
  /\ tasks[t].status = "awaiting"
  /\ tasks' = [tasks EXCEPT ![t].status = "failed"]
  /\ UNCHANGED << config, entry, pc, i, metrics, errors, exc, result, escaped,
                  setup_calls, teardown_calls, rst_calls, late_call, raised_log,
                  executor, timed_out, call_log, other_vars >>

\* line 293: task t has run all its iterations and returns its list
TaskDone(t) ==
  /\ tasks[t].status = "ready"
  /\ tasks[t].i >= config.iterations
  /\ tasks' = [tasks EXCEPT ![t].status = "done"]
  /\ UNCHANGED << config, entry, pc, i, metrics, errors, exc, result, escaped,
                  setup_calls, teardown_calls, rst_calls, late_call, raised_log,
                  executor, timed_out, call_log, other_vars >>

\* gather without return_exceptions: the first exception resumes the runner
GatherReadyFirstException ==
  \/ \A t \in 1..Len(tasks) : Finished(tasks[t])
  \/ \E t \in 1..Len(tasks) : tasks[t].status = "failed"

\* line 226: gather(return_exceptions=True) resumes the runner
GatherReady == \A t \in 1..Len(tasks) : Finished(tasks[t])

Gather ==
  /\ pc = "ct_gather"
  /\ GatherReady
  /\ pc' = "ct_teardown"
  /\ UNCHANGED << config, entry, i, metrics, tasks, errors, exc, result, escaped,
                  setup_calls, teardown_calls, rst_calls, late_call, raised_log,
                  executor, timed_out, call_log, other_vars >>

\* a merge that keeps only the first task's list
MergeMetricsFirstOnly(ts) ==
  IF ts # <<>> /\ Head(ts).status = "done" THEN Head(ts).metrics ELSE <<>>

\* lines 233-240: the results of the tasks, merged in task order
RECURSIVE MergeMetrics(_)
MergeMetrics(ts) ==
  IF ts = <<>> THEN <<>>
  ELSE (IF Head(ts).status = "done" THEN Head(ts).metrics ELSE <<>>)
       \o MergeMetrics(Tail(ts))

RECURSIVE MergeErrors(_)
MergeErrors(ts) ==
  IF ts = <<>> THEN <<>>
  ELSE (IF Head(ts).status = "failed" THEN <<ProbeError>> ELSE <<>>)
       \o MergeErrors(Tail(ts))

\* lines 228-260: teardown, merge, summary, success flag, the normal return
ConcurrentTeardown ==
  /\ pc = "ct_teardown"
  /\ teardown_calls' = teardown_calls + 1
  /\ \/ /\ ~generate_summary_raises(MergeMetrics(tasks))
        /\ LET all_metrics == MergeMetrics(tasks)
               errs == MergeErrors(tasks)
               summary == generate_summary(all_metrics)
           IN  /\ errors' = errs
               /\ result' = TestResult(
                    ConcurrentName(test_name, config.concurrency), all_metrics,
                    summary, ConcurrentSuccess(errs, summary),
                    IF errs # <<>> THEN ConcurrentErrors(errs) ELSE NoMessage)
        /\ pc' = "done"
        /\ UNCHANGED << exc, raised_log >>
     \/ /\ generate_summary_raises(MergeMetrics(tasks))
        /\ errors' = MergeErrors(tasks)
        /\ Raise(ZeroDivisionError, "ct_except")
        /\ UNCHANGED result
     \/ /\ Raise(TeardownError, "ct_except")
        /\ UNCHANGED << errors, result >>
  /\ UNCHANGED << config, entry, i, metrics, tasks, escaped,
                  setup_calls, rst_calls, late_call,
                  executor, timed_out, call_log, other_vars >>

\* lines 262-276: the except branch calls teardown again, outside any try;
\* what it raises reaches run_test's except branch when run_test is the caller
ConcurrentExcept ==
  /\ pc = "ct_except"
  /\ teardown_calls' = teardown_calls + 1
  /\ \/ /\ result' = FailedResult(ConcurrentName(test_name, config.concurrency), exc)
        /\ pc' = "done"
        /\ UNCHANGED << exc, escaped, raised_log >>
     \/ /\ entry = "run_test"
        /\ Raise(TeardownError, "rt_except")
        /\ UNCHANGED << result, escaped >>
     \/ /\ entry = "run_concurrent_test"
        /\ pc' = "raised"
        /\ escaped' = TeardownError
        /\ raised_log' = Append(raised_log, TeardownError)
        /\ UNCHANGED << exc, result >>
  /\ UNCHANGED << config, entry, i, metrics, tasks, errors,
                  setup_calls, rst_calls, late_call,
                  executor, timed_out, call_log, other_vars >>

Next ==
  \/ RunTestSetup
  \/ WarmupCall
  \/ WarmupReturn
  \/ WarmupRaise
  \/ MeasureCall
  \/ MeasureReturn
  \/ MeasureRaise
  \/ RunTestTeardown
  \/ RunTestExcept
  \/ ConcurrentSetup
  \/ \E t \in 1..Len(tasks) : TaskCall(t)
  \/ \E t \in 1..Len(tasks) : TaskReturn(t)
  \/ \E t \in 1..Len(tasks) : TaskRaise(t)
  \/ \E t \in 1..Len(tasks) : TaskDone(t)
  \/ Gather
  \/ ConcurrentTeardown
  \/ ConcurrentExcept

Spec == Init /\ [][Next]_vars

\* -------------------------------------- _generate_summary on its own
\* Every list of at most MaxLen samples is handed to _generate_summary.
Samples ==
  { PerformanceMetrics(s, d, w) : s \in BOOLEAN, d \in 0..MaxDuration, w \in BOOLEAN }

SampleLists == UNION { [1..n -> Samples] : n \in 0..MaxLen }

SummaryInit ==
  /\ metrics \in SampleLists
  /\ pc = "summary"
  /\ config = [concurrency |-> 1, iterations |-> 1, warmup_iterations |-> 0]
  /\ entry = "_generate_summary"
  /\ i = 0
  /\ tasks = <<>>
  /\ errors = <<>>
  /\ exc = ""
  /\ result = NoResult
  /\ escaped = ""
  /\ setup_calls = 0
  /\ teardown_calls = 0
  /\ rst_calls = 0
  /\ late_call = FALSE
  /\ raised_log = <<>>
  /\ call_log = <<>>
  /\ executor = "probe"
  /\ timed_out = 0
  /\ OthersIdle

\* lines 171-199, and the success flag run_test derives (lines 137-142)
Summarize ==
  /\ pc = "summary"
  /\ pc' = "summarized"
  /\ \/ /\ ~generate_summary_raises(metrics)
        /\ LET summary == generate_summary(metrics)
           IN  result' = TestResult(PlainName(test_name), metrics, summary,
                                    SequentialSuccess(summary), NoMessage)
        /\ UNCHANGED << exc, raised_log >>
     \/ /\ generate_summary_raises(metrics)
        /\ exc' = ZeroDivisionError
        /\ raised_log' = Append(raised_log, ZeroDivisionError)
        /\ UNCHANGED result
  /\ UNCHANGED << config, entry, i, metrics, tasks, errors, escaped,
                  setup_calls, teardown_calls, rst_calls, late_call,
                  executor, timed_out, call_log, other_vars >>

SummaryNext == Summarize

SummarySpec == SummaryInit /\ [][SummaryNext]_vars

\* ================================================================ claims
Returned == pc = "done"
Ended == pc \in {"done", "raised"}

HasFailedMeasured(ms) == \E n \in 1..Len(ms) : ~ms[n].warmup /\ ~ms[n].success
AllMeasuredSucceeded(ms) == \A n \in 1..Len(ms) : ms[n].warmup \/ ms[n].success
CallInFlight ==
  \/ pc \in {"rt_warmup_wait", "rt_measure_wait"}
  \/ \E t \in 1..Len(tasks) : tasks[t].status = "awaiting"

\* C1: a returned result that holds a failed non-warmup sample has
\* success = false, in sequential and in concurrent mode.
C1_FailedSampleFailsRun ==
  (Returned /\ HasFailedMeasured(result.metrics)) => (result.success = FALSE)

C1_Witness ==
  /\ Returned
  /\ HasFailedMeasured(result.metrics)
  /\ \E n \in 1..Len(result.metrics) : result.metrics[n].success
  /\ result.error_message = NoMessage

\* C2: no exception leaves run_test or run_concurrent_test, whatever setup,
\* run_single_test and teardown do.
C2_NeverEscapes == pc # "raised"

\* C3: sequential mode, run_single_test raises after earlier iterations
\* returned samples: the result is failed, carries the error text and still
\* holds every sample collected before the error.
C3_PartialSamplesKept ==
  (Returned /\ ~Concurrent /\ raised_log # <<>> /\ raised_log[1] = ProbeError)
    => /\ result.success = FALSE
       /\ result.error_message = StrOf(ProbeError)
       /\ result.metrics = metrics

C5_TeardownNeverChangesOutcome ==
  /\ ( /\ Ended /\ entry = "run_test" /\ ~Concurrent
       /\ raised_log # <<>> /\ raised_log[1] = TeardownError
       /\ MeasuredOf(metrics) # <<>> /\ AllMeasuredSucceeded(metrics) )
       => /\ Returned
          /\ result.success = TRUE
          /\ result.metrics = metrics
          /\ result.summary = generate_summary(metrics)
  /\ ( /\ Returned /\ entry = "run_test" /\ ~Concurrent
       /\ raised_log # <<>> /\ raised_log[1] \in {SetupError, ProbeError} )
       => result.error_message = StrOf(raised_log[1])

\* C6: on every path teardown is called at least once before the result is
\* returned, and once teardown has been called no run_single_test call is
\* in flight or started.
C6_TeardownAfterLastCall ==
  /\ Returned => teardown_calls >= 1
  /\ teardown_calls >= 1 =>
       /\ ~CallInFlight
       /\ pc \notin {"rt_warmup", "rt_measure"}
  /\ ~late_call

C6_Witness ==
  /\ Returned
  /\ teardown_calls >= 1
  /\ rst_calls >= 2
  /\ raised_log # <<>>
  /\ raised_log[1] = ProbeError

\* C7: for a list with M >= 1 measured samples _generate_summary reports
\* total_iterations = M and counts, rates, extremes and totals of the
\* measured samples only; a failed warmup sample does not fail the run.
MeasuredIndexes(ms) == { n \in 1..Len(ms) : ~ms[n].warmup }

C7_SummaryOverMeasuredOnly ==
  (pc = "summarized" /\ MeasuredIndexes(metrics) # {}) =>
    LET idx == MeasuredIndexes(metrics)
        M == Cardinality(idx)
        ok == Cardinality({ n \in idx : metrics[n].success })
    IN  /\ exc = ""
        /\ result.summary # EmptySummary
        /\ result.summary.total_iterations = M
        /\ result.summary.successful_iterations = ok
        /\ result.summary.failed_iterations = M - ok
        /\ result.summary.success_rate = Quot(ok, M)
        /\ \A n \in idx : /\ result.summary.min_duration <= metrics[n].duration
                          /\ result.summary.max_duration >= metrics[n].duration
        /\ \A f \in {"min_duration", "max_duration", "p50_duration",
                     "p95_duration", "p99_duration"} :
             \E n \in idx : result.summary[f] = metrics[n].duration
        /\ result.summary.avg_duration = Quot(result.summary.total_time, M)
        /\ result.summary.operations_per_second = Quot(M, result.summary.total_time)
        /\ result.success = (ok = M)

\* C8: concurrent mode with concurrency c > 1, iterations k and a probe that
\* always succeeds with one successful sample per call returns c*k samples,
\* none tagged warmup, total_iterations = c*k, failed_iterations = 0 and
\* success = true, whatever warmup_iterations is and whichever entry is used.
ProbeAlwaysSucceeded ==
  /\ raised_log = <<>>
  /\ \A t \in 1..Len(tasks) :
       /\ tasks[t].status = "done"
       /\ Len(tasks[t].metrics) = config.iterations
       /\ \A n \in 1..Len(tasks[t].metrics) : tasks[t].metrics[n].success

FailedTasks == { t \in 1..Len(tasks) : tasks[t].status = "failed" }

C9_FailingTaskIsolated ==
  ( /\ Returned /\ config.concurrency > 1 /\ FailedTasks # {}
    /\ \E t \in 1..Len(tasks) : tasks[t].status = "done" /\ tasks[t].metrics # <<>> ) =>
     /\ \A t \in 1..Len(tasks) :
          t \notin FailedTasks =>
            tasks[t].status = "done" /\ tasks[t].i = config.iterations
     /\ Len(errors) = Cardinality(FailedTasks)
     /\ result.metrics = MergeMetrics(tasks)

\* C10: teardown, merge and summary of run_concurrent_test start only after
\* every task has returned or raised; no run_single_test call of a task is
\* pending or started once teardown has begun or the result is returned.
C10_JoinBeforeTeardown ==
  /\ (teardown_calls >= 1 \/ pc \in {"ct_teardown", "ct_except", "rt_except", "done", "raised"})
       => \A t \in 1..Len(tasks) : Finished(tasks[t])
  /\ ~late_call

C10_Witness ==
  /\ Returned
  /\ Len(tasks) >= 2
  /\ FailedTasks # {}
  /\ \E t \in 1..Len(tasks) : tasks[t].status = "done" /\ tasks[t].metrics # <<>>
  /\ rst_calls >= 3

\* C11: run_test with configured concurrency c > 1 returns a result named
\* "{test_name}_concurrent_{c}" on every path: all tasks succeed, a task
\* fails, setup fails, the run aborts.
C11_ConcurrentNameOnEveryPath ==
  (Returned /\ entry = "run_test" /\ config.concurrency > 1)
    => result.test_name = ConcurrentName(TestName, config.concurrency)

\* C12: sequential mode, w warmup and n measured iterations, no error:
\* run_single_test is called exactly w+n times, warmup calls 0..w-1 first
\* and measured calls 0..n-1 after them, one call at a time, each call's
\* samples recorded before the next call starts, warmup samples tagged
\* warmup = true, and the result holds the returned samples in call order.
RECURSIVE SamplesOf(_)
SamplesOf(log) ==
  IF log = <<>> THEN <<>>
  ELSE SamplesOf(SubSeq(log, 1, Len(log) - 1)) \o log[Len(log)].samples

C12_SequentialCallOrder ==
  (entry = "run_test" /\ ~Concurrent) =>
    LET w == config.warmup_iterations
        n == config.iterations
    IN  /\ Len(call_log) <= w + n
        /\ \A c \in 1..Len(call_log) :
             /\ call_log[c].warmup = (c <= w)
             /\ call_log[c].iteration = (IF c <= w THEN c - 1 ELSE c - w - 1)
             /\ c < Len(call_log) => call_log[c].done
             /\ call_log[c].warmup =>
                  \A m \in 1..Len(call_log[c].samples) : call_log[c].samples[m].warmup
        /\ metrics = SamplesOf(call_log)
        /\ (Returned /\ raised_log = <<>>) =>
             /\ Len(call_log) = w + n
             /\ rst_calls = w + n
             /\ call_log[w + n].done
             /\ result.metrics = SamplesOf(call_log)

C12_Witness ==
  /\ Returned
  /\ entry = "run_test"
  /\ ~Concurrent
  /\ raised_log = <<>>
  /\ config.warmup_iterations = 1
  /\ config.iterations = 2
  /\ Len(call_log) = 3
  /\ Len(result.metrics) >= 4
  /\ result.metrics[1].warmup

\* C14: at least one measured sample and measured durations summing to 0:
\* the summary is produced, its operations_per_second is 0, every other
\* field is present, and the run still returns its samples.
C14_ZeroDurationSum ==
  ( /\ pc = "summarized"
    /\ MeasuredOf(metrics) # <<>>
    /\ SumSeq(DurationsOf(MeasuredOf(metrics))) = 0 )
    => /\ exc = ""
       /\ DOMAIN result.summary = SummaryFields
       /\ result.summary.operations_per_second = 0
       /\ result.metrics = metrics

\* C15 as stated: with no measured sample the summary holds every summary
\* field with value 0.
C15_ZeroValueSummary ==
  (pc = "summarized" /\ MeasuredOf(metrics) = <<>>)
    => /\ DOMAIN result.summary = SummaryFields
       /\ \A f \in SummaryFields : result.summary[f] = 0

\* C15 amended: with no measured sample _generate_summary raises nothing and
\* returns the empty object, holding no field at all; run_test then reports
\* the run as success = false and still returns the samples it was given.
C15_EmptySummary ==
  (pc = "summarized" /\ MeasuredOf(metrics) = <<>>)
    => /\ exc = ""
       /\ result.summary = EmptySummary
       /\ DOMAIN result.summary = {}
       /\ result.success = FALSE
       /\ result.metrics = metrics

C15_Witness ==
  /\ pc = "summarized"
  /\ Len(metrics) = 2
  /\ \A n \in 1..Len(metrics) : metrics[n].warmup /\ metrics[n].success
  /\ result.summary = EmptySummary
  /\ result.success = FALSE

\* C17: every non-empty summary has min <= p50 <= p95 <= p99 <= max,
\* min <= avg <= max and total_iterations = successful + failed.
C17_SummaryOrdering ==
  (pc = "summarized" /\ exc = "" /\ result.summary # EmptySummary) =>
    LET sm == result.summary
    IN  /\ sm.min_duration <= sm.p50_duration
        /\ sm.p50_duration <= sm.p95_duration
        /\ sm.p95_duration <= sm.p99_duration
        /\ sm.p99_duration <= sm.max_duration
        /\ sm.min_duration * sm.avg_duration[2] <= sm.avg_duration[1]
        /\ sm.avg_duration[1] <= sm.max_duration * sm.avg_duration[2]
        /\ sm.total_iterations = sm.successful_iterations + sm.failed_iterations

C17_Witness ==
  /\ pc = "summarized"
  /\ exc = ""
  /\ result.summary # EmptySummary
  /\ result.summary.min_duration < result.summary.p50_duration
  /\ result.summary.p50_duration < result.summary.p95_duration
  /\ result.summary.successful_iterations >= 1
  /\ result.summary.failed_iterations >= 1

\* ------------------------------------------------ the percentile routines
\* the runner is at rest while another component is exercised
RunnerIdle ==
  /\ config = [concurrency |-> 1, iterations |-> 1, warmup_iterations |-> 0]
  /\ i = 0
  /\ metrics = <<>>
  /\ tasks = <<>>
  /\ errors = <<>>
  /\ exc = ""
  /\ result = NoResult
  /\ escaped = ""
  /\ setup_calls = 0
  /\ teardown_calls = 0
  /\ rst_calls = 0
  /\ late_call = FALSE
  /\ raised_log = <<>>
  /\ call_log = <<>>
  /\ executor = "probe"
  /\ timed_out = 0
  /\ ResourcesIdle

runner_vars == << config, i, metrics, tasks, errors, exc, result, escaped,
                  setup_calls, teardown_calls, rst_calls, late_call,
                  raised_log, call_log, executor, timed_out, resource_vars >>

sorted(data) == SortSeq(data, LAMBDA a, b : a < b)

\* nearest rank counted from 1: index ceil(n*p/100) - 1
DataAnalyzer_percentileRankFromOne(data, p) ==
  IF data = <<>> THEN 0
  ELSE LET data_sorted == sorted(data)
           index == (Len(data_sorted) * p + 99) \div 100 - 1
       IN  IF index >= Len(data_sorted)
           THEN data_sorted[Len(data_sorted)]
           ELSE data_sorted[index + 1]

\* DataAnalyzer._percentile
DataAnalyzer_percentile(data, p) ==
  IF data = <<>> THEN 0
  ELSE LET data_sorted == sorted(data)
           index == (Len(data_sorted) * p) \div 100
       IN  IF index >= Len(data_sorted)
           THEN data_sorted[Len(data_sorted)]
           ELSE data_sorted[index + 1]

\* utils.helpers.calculate_percentile
calculate_percentile(data, p) ==
  IF data = <<>> THEN 0
  ELSE LET data_sorted == sorted(data)
           index == (Len(data_sorted) * p) \div 100
       IN  IF index >= Len(data_sorted)
           THEN data_sorted[Len(data_sorted)]
           ELSE data_sorted[index + 1]

\* the percentiles of StatisticsCalculator._calculate_percentiles, in tenths
\* of a percent: 50, 75, 90, 95, 99 and 99.9
StatisticsPercentiles == {500, 750, 900, 950, 990, 999}

calculate_percentiles(data) ==
  IF data = <<>> THEN Nothing
  ELSE LET sorted_data == sorted(data)
           index(p) == (Len(sorted_data) * p) \div 1000
       IN  [ p \in StatisticsPercentiles |->
               IF index(p) >= Len(sorted_data)
               THEN sorted_data[Len(sorted_data)]
               ELSE sorted_data[index(p) + 1] ]

\* StatisticsCalculator._calculate_quartiles: int(n * 0.25), int(n * 0.5),
\* int(n * 0.75), not clamped
calculate_quartiles(data) ==
  IF data = <<>> THEN Nothing
  ELSE LET sorted_data == sorted(data)
           n == Len(sorted_data)
           q1_index == (n * 25) \div 100
           q2_index == (n * 50) \div 100
           q3_index == (n * 75) \div 100
       IN  [ q1 |-> sorted_data[q1_index + 1],
             q2 |-> sorted_data[q2_index + 1],
             q3 |-> sorted_data[q3_index + 1],
             iqr |-> sorted_data[q3_index + 1] - sorted_data[q1_index + 1] ]

\* the percentiles the code base asks for
PercentilesUsed == {25, 50, 75, 90, 95, 99}

DataLists == UNION { [1..n -> 0..MaxValue] : n \in 0..MaxData }

PercentileInit ==
  /\ pc = "percentile"
  /\ entry = "percentile"
  /\ RunnerIdle
  /\ duration_list \in DataLists
  /\ percentiles = Nothing
  /\ test_results = <<>>
  /\ baseline_engine = ""
  /\ processed_data = Nothing

\* every routine is applied to the list
ComputePercentiles ==
  /\ pc = "percentile"
  /\ pc' = "percentile_done"
  /\ percentiles' =
       [ runner |-> [p \in PercentilesUsed |-> percentile(duration_list, p)],
         analyzer |-> [p \in PercentilesUsed |-> DataAnalyzer_percentile(duration_list, p)],
         helpers |-> [p \in PercentilesUsed |-> calculate_percentile(duration_list, p)],
         statistics |-> calculate_percentiles(duration_list),
         quartiles |-> calculate_quartiles(duration_list) ]
  /\ UNCHANGED << entry, runner_vars, duration_list, test_results, baseline_engine,
                  processed_data >>

PercentileNext == ComputePercentiles

PercentileSpec == PercentileInit /\ [][PercentileNext]_vars

\* the element of rank k (from 0) of a list in ascending order: fewer than
\* k+1 elements are below it and at least k+1 are not above it
Ranked(d, k) ==
  CHOOSE v \in { d[n] : n \in 1..Len(d) } :
    /\ Cardinality({ n \in 1..Len(d) : d[n] < v }) <= k
    /\ Cardinality({ n \in 1..Len(d) : d[n] <= v }) > k

NearestRank(d, p) ==
  LET n == Len(d)
      floor == (n * p) \div 100
  IN  Ranked(d, IF floor < n - 1 THEN floor ELSE n - 1)

\* C16: on a non-empty list of length n every percentile routine returns,
\* for every percentile it serves among 25, 50, 75, 90, 95, 99, the element
\* at index min(floor(n*p/100), n-1) of the ascending list, so the routines
\* agree; runner, analyzer and helper return 0 on the empty list.
C16_PercentilesAgree ==
  (pc = "percentile_done") =>
    IF duration_list = <<>>
    THEN \A p \in PercentilesUsed :
           /\ percentiles.runner[p] = 0
           /\ percentiles.analyzer[p] = 0
           /\ percentiles.helpers[p] = 0
    ELSE /\ \A p \in PercentilesUsed :
              /\ percentiles.runner[p] = NearestRank(duration_list, p)
              /\ percentiles.analyzer[p] = NearestRank(duration_list, p)
              /\ percentiles.helpers[p] = NearestRank(duration_list, p)
         /\ \A p \in PercentilesUsed \ {25} :
              percentiles.statistics[p * 10] = NearestRank(duration_list, p)
         /\ percentiles.quartiles.q1 = NearestRank(duration_list, 25)
         /\ percentiles.quartiles.q2 = NearestRank(duration_list, 50)
         /\ percentiles.quartiles.q3 = NearestRank(duration_list, 75)

C16_Witness ==
  /\ pc = "percentile_done"
  /\ Len(duration_list) = MaxData
  /\ duration_list[1] > duration_list[2]
  /\ percentiles.runner[25] < percentiles.runner[50]
  /\ percentiles.statistics[750] < percentiles.statistics[900]
  /\ percentiles.analyzer[99] = percentiles.helpers[99]

\* ------------------------------- run_test over the CRI and client executors
\* RuntimeError("Command timed out after ...") of CRIExecutor._run
CommandTimedOut == "Command timed out"
\* str(asyncio.TimeoutError()), re-raised by ClientExecutor._run_command
TimeoutErrorText == ""
\* stderr of a command that exited non-zero
CommandStderr == "stderr"

ExecSample(s, d, w, msg) ==
  [success |-> s, duration |-> d, warmup |-> w, error_message |-> msg]

Outcome(raised, samples, timeouts) ==
  [raised |-> raised, samples |-> samples, timeouts |-> timeouts]

\* CRIExecutor.run_single_test("create_container"): runp then create, each
\* through _run; a command that times out raises out of run_single_test
cri_run_single_test(warmup) ==
  { Outcome("", << ExecSample(FALSE, 1, warmup, StrOf(CommandStderr)) >>, 0),
    Outcome("", << ExecSample(TRUE, 1, warmup, NoMessage),
                   ExecSample(FALSE, 1, warmup, StrOf(CommandStderr)) >>, 0),
    Outcome("", << ExecSample(TRUE, 1, warmup, NoMessage),
                   ExecSample(TRUE, 1, warmup, NoMessage) >>, 0),
    Outcome(CommandTimedOut, <<>>, 1) }

\* ClientExecutor.run_single_test("create_container"): one create command;
\* _test_create_container_client turns any exception into a failed sample
\* whose duration is the time waited
client_run_single_test(warmup) ==
  { Outcome("", << ExecSample(TRUE, 1, FALSE, NoMessage) >>, 0),
    Outcome("", << ExecSample(FALSE, 1, FALSE, StrOf(CommandStderr)) >>, 0),
    Outcome("", << ExecSample(FALSE, MaxDuration, FALSE, StrOf(TimeoutErrorText)) >>, 1) }

run_single_test(warmup) ==
  IF executor = "cri" THEN cri_run_single_test(warmup)
  ELSE client_run_single_test(warmup)

SequentialConfigs == { c \in Configs : c.concurrency = 1 }

ExecInit ==
  /\ pc = "rt_setup"
  /\ entry = "run_test"
  /\ executor \in {"cri", "client"}
  /\ config \in SequentialConfigs
  /\ i = 0
  /\ metrics = <<>>
  /\ tasks = <<>>
  /\ errors = <<>>
  /\ exc = ""
  /\ result = NoResult
  /\ escaped = ""
  /\ setup_calls = 0
  /\ teardown_calls = 0
  /\ rst_calls = 0
  /\ late_call = FALSE
  /\ raised_log = <<>>
  /\ call_log = <<>>
  /\ timed_out = 0
  /\ OthersIdle

\* lines 104-107 with the executor's run_single_test
ExecWarmupFinish ==
  /\ pc = "rt_warmup_wait"
  /\ \E out \in run_single_test(TRUE) :
       /\ timed_out' = timed_out + out.timeouts
       /\ IF out.raised = ""
          THEN /\ metrics' = metrics \o TagWarmup(out.samples)
               /\ call_log' = Returns(call_log, TagWarmup(out.samples))
               /\ IF i + 1 < config.warmup_iterations
                  THEN i' = i + 1 /\ pc' = "rt_warmup"
                  ELSE i' = 0 /\ pc' = AfterWarmup(i + 1)
               /\ UNCHANGED << exc, raised_log >>
          ELSE /\ Raise(out.raised, "rt_except")
               /\ UNCHANGED << i, metrics, call_log >>
  /\ UNCHANGED << config, entry, tasks, errors, result, escaped,
                  setup_calls, teardown_calls, rst_calls, late_call,
                  executor, other_vars >>

\* lines 121-122 with the executor's run_single_test
ExecMeasureFinish ==
  /\ pc = "rt_measure_wait"
  /\ \E out \in run_single_test(FALSE) :
       /\ timed_out' = timed_out + out.timeouts
       /\ IF out.raised = ""
          THEN /\ metrics' = metrics \o out.samples
               /\ call_log' = Returns(call_log, out.samples)
               /\ i' = i + 1
               /\ pc' = AfterMeasure(i + 1)
               /\ UNCHANGED << exc, raised_log >>
          ELSE /\ Raise(out.raised, "rt_except")
               /\ UNCHANGED << i, metrics, call_log >>
  /\ UNCHANGED << config, entry, tasks, errors, result, escaped,
                  setup_calls, teardown_calls, rst_calls, late_call,
                  executor, other_vars >>

\* lines 128-153; the teardown of either executor swallows its own errors
ExecTeardown ==
  /\ pc = "rt_teardown"
  /\ teardown_calls' = teardown_calls + 1
  /\ IF generate_summary_raises(metrics)
     THEN /\ Raise(ZeroDivisionError, "rt_except")
          /\ UNCHANGED result
     ELSE /\ LET summary == generate_summary(metrics)
             IN  result' = TestResult(PlainName(test_name), metrics, summary,
                                      SequentialSuccess(summary), NoMessage)
          /\ pc' = "done"
          /\ UNCHANGED << exc, raised_log >>
  /\ UNCHANGED << config, entry, i, metrics, tasks, errors, escaped,
                  setup_calls, rst_calls, late_call,
                  executor, timed_out, call_log, other_vars >>

\* lines 155-169 with a teardown that cannot raise
ExecExcept ==
  /\ pc = "rt_except"
  /\ teardown_calls' = teardown_calls + 1
  /\ result' = FailedResult(PlainName(test_name), exc)
  /\ pc' = "done"
  /\ UNCHANGED << config, entry, i, metrics, tasks, errors, exc, escaped,
                  setup_calls, rst_calls, late_call, raised_log,
                  executor, timed_out, call_log, other_vars >>

ExecNext ==
  \/ RunTestSetup
  \/ WarmupCall
  \/ ExecWarmupFinish
  \/ MeasureCall
  \/ ExecMeasureFinish
  \/ ExecTeardown
  \/ ExecExcept

ExecSpec == ExecInit /\ [][ExecNext]_vars

TimeoutSamples(ms) ==
  { n \in 1..Len(ms) :
      /\ ~ms[n].success
      /\ ms[n].error_message \in {StrOf(TimeoutErrorText), StrOf(CommandTimedOut)} }

\* C13: an operation command that times out during a warmup or measured
\* iteration is recorded as a success = false sample carrying the timeout
\* as error message, and the run goes on through the remaining iterations,
\* with the CRI executor and with the client executor.
C13_TimeoutIsFailedSample ==
  (Returned /\ entry = "run_test" /\ executor \in {"cri", "client"} /\ timed_out > 0)
    => /\ Len(call_log) = config.warmup_iterations + config.iterations
       /\ \A c \in 1..Len(call_log) : call_log[c].done
       /\ Cardinality(TimeoutSamples(result.metrics)) = timed_out

\* ------------------------------------------------- DataAnalyzer.process
InvalidTestResults == "Invalid test results provided"
NeedTwoEngines == "Need at least 2 engines for comparison"
InsufficientData == "Insufficient data for comparison"
NoMetricsAvailable == "No metrics available"

\* {"error": reason}
ErrorMarker(reason) == [error |-> reason]
IsErrorMarker(view) == "error" \in DOMAIN view

EngineNames == {"isulad", "docker"}
AnalyzerTests == {"create_container", "pull_image"}
\* no baseline configured, an engine of the runs, an engine that never ran
BaselineNames == {"", "docker", "containerd"}

\* the samples of one TestResult: none, one failed, one successful sample of
\* duration 0, 1 or 2
AnalyzerMetrics ==
  { <<>>,
    << PerformanceMetrics(FALSE, 1, FALSE) >>,
    << PerformanceMetrics(TRUE, 0, FALSE) >>,
    << PerformanceMetrics(TRUE, 1, FALSE) >>,
    << PerformanceMetrics(TRUE, 2, FALSE) >> }

AnalyzerResults ==
  { [test_name |-> t, engine_name |-> e, metrics |-> ms] :
      t \in AnalyzerTests, e \in EngineNames, ms \in AnalyzerMetrics }

ResultLists == UNION { [1..n -> AnalyzerResults] : n \in 0..MaxResults }

\* exact comparison and division of quotients with positive denominators
RatLess(a, b) == a[1] * b[2] < b[1] * a[2]
RatDiv(a, b) == Quot(a[1] * b[2], a[2] * b[1])

validate_input(rs) == rs # <<>>

EnginesOf(rs) == { rs[n].engine_name : n \in 1..Len(rs) }
TestsOf(rs) == { rs[n].test_name : n \in 1..Len(rs) }
FirstIndex(rs, e) ==
  CHOOSE n \in 1..Len(rs) :
    /\ rs[n].engine_name = e
    /\ \A m \in 1..(n - 1) : rs[m].engine_name # e

SuccessfulDurations(ms) == DurationsOf(SelectSeq(ms, LAMBDA m : m.success))

\* next((r for r in results if r.test_name == test_name), None)
HasResult(rs, e, t) ==
  \E n \in 1..Len(rs) : rs[n].engine_name = e /\ rs[n].test_name = t
FirstResult(rs, e, t) ==
  rs[CHOOSE n \in 1..Len(rs) :
       /\ rs[n].engine_name = e /\ rs[n].test_name = t
       /\ \A m \in 1..(n - 1) : ~(rs[m].engine_name = e /\ rs[m].test_name = t)]

\* the engines that get an engine_metrics entry for test t
Compared(rs, t) ==
  { e \in EnginesOf(rs) :
      /\ HasResult(rs, e, t)
      /\ SuccessfulDurations(FirstResult(rs, e, t).metrics) # <<>> }

\* line 300: len(durations) / sum(durations) with no guard on the sum
compare_engines_raises(rs) ==
  /\ Cardinality(EnginesOf(rs)) >= 2
  /\ \E t \in TestsOf(rs) : \E e \in Compared(rs, t) :
       SumSeq(SuccessfulDurations(FirstResult(rs, e, t).metrics)) = 0

engine_metrics(rs, t) ==
  [ e \in Compared(rs, t) |->
      LET ms == FirstResult(rs, e, t).metrics
          durations == SuccessfulDurations(ms)
      IN  [ avg_duration |-> Quot(SumSeq(durations), Len(durations)),
            operations_per_second |-> Quot(Len(durations), SumSeq(durations)),
            success_rate |-> Quot(Len(durations), Len(ms)),
            p95_duration |-> DataAnalyzer_percentile(durations, 95) ] ]

\* the fastest engine always
SelectBaselineFastest(em, rs, configured) ==
  CHOOSE e \in DOMAIN em : \A o \in DOMAIN em :
    \/ RatLess(em[e].avg_duration, em[o].avg_duration)
    \/ /\ ~RatLess(em[o].avg_duration, em[e].avg_duration)
       /\ FirstIndex(rs, e) <= FirstIndex(rs, o)

\* lines 315-318: the configured name if it is compared, else min() over the
\* keys by avg_duration, the first inserted key winning a tie
SelectBaseline(em, rs, configured) ==
  IF configured # "" /\ configured \in DOMAIN em
  THEN configured
  ELSE CHOOSE e \in DOMAIN em : \A o \in DOMAIN em :
         \/ RatLess(em[e].avg_duration, em[o].avg_duration)
         \/ /\ ~RatLess(em[o].avg_duration, em[e].avg_duration)
            /\ FirstIndex(rs, e) <= FirstIndex(rs, o)

compare_test_across_engines(t, rs, configured) ==
  LET em == engine_metrics(rs, t)
  IN  IF Cardinality(DOMAIN em) < 2 THEN ErrorMarker(InsufficientData)
      ELSE LET base == SelectBaseline(em, rs, configured)
               baseline_avg == em[base].avg_duration
           IN  [ engine_metrics |-> em,
                 baseline_engine |-> base,
                 relative_performance |->
                   [ e \in DOMAIN em |->
                       [ relative_duration |-> RatDiv(em[e].avg_duration, baseline_avg),
                         performance_ratio |-> RatDiv(baseline_avg, em[e].avg_duration),
                         is_faster |-> RatLess(em[e].avg_duration, baseline_avg) ] ] ]

compare_engines(rs, configured) ==
  IF rs = <<>> THEN Nothing
  ELSE IF Cardinality(EnginesOf(rs)) < 2 THEN ErrorMarker(NeedTwoEngines)
  ELSE [ t \in TestsOf(rs) |-> compare_test_across_engines(t, rs, configured) ]

\* findings[:8]
TopFindingsLimit == 8

\* abs(performance_ratio - 1.0)
AbsDeviation(r) == Quot(IF r[1] >= r[2] THEN r[1] - r[2] ELSE r[2] - r[1], r[2])

\* lines 346-361: one finding per compared engine other than the baseline
Findings(comparison) ==
  IF IsErrorMarker(comparison) THEN {}
  ELSE UNION {
         { [ test |-> t,
             baseline |-> comparison[t].baseline_engine,
             other |-> e,
             performance_ratio |-> comparison[t].relative_performance[e].performance_ratio,
             relative_duration |-> comparison[t].relative_performance[e].relative_duration ] :
           e \in { o \in DOMAIN comparison[t].relative_performance :
                     /\ o # comparison[t].baseline_engine
                     /\ comparison[t].relative_performance[o].performance_ratio[1] > 0 } } :
         t \in { u \in DOMAIN comparison : ~IsErrorMarker(comparison[u]) } }

\* lines 364-365: the findings in every order the sort can leave them in (the
\* test names are iterated from a set, so equal keys come in either order),
\* cut to the limit
generate_top_findings(comparison) ==
  LET fs == Findings(comparison)
      n == Cardinality(fs)
      orders == { o \in [1..n -> fs] :
                    /\ \A a, b \in 1..n : a # b => o[a] # o[b]
                    /\ \A a, b \in 1..n : a < b =>
                         ~RatLess(AbsDeviation(o[a].performance_ratio),
                                  AbsDeviation(o[b].performance_ratio)) }
  IN  { SubSeq(o, 1, IF n < TopFindingsLimit THEN n ELSE TopFindingsLimit) : o \in orders }

\* lines 116-142, the counts
generate_overall_summary(rs) ==
  LET total_metrics == [n \in 1..Len(rs) |-> Len(rs[n].metrics)]
      successful == [n \in 1..Len(rs) |-> Len(SuccessfulDurations(rs[n].metrics))]
  IN  [ total_tests |-> Len(rs),
        total_operations |-> SumSeq(total_metrics),
        successful_operations |-> SumSeq(successful) ]

\* lines 144-180, the counts and the marker of a group without samples
analyze_individual_tests(rs) ==
  [ t \in TestsOf(rs) |->
      LET results == SelectSeq(rs, LAMBDA r : r.test_name = t)
          total_ops == SumSeq([n \in 1..Len(results) |-> Len(results[n].metrics)])
          successful_ops ==
            SumSeq([n \in 1..Len(results) |-> Len(SuccessfulDurations(results[n].metrics))])
      IN  IF total_ops = 0 THEN ErrorMarker(NoMetricsAvailable)
          ELSE [ test_count |-> Len(results),
                 total_operations |-> total_ops,
                 successful_operations |-> successful_ops,
                 success_rate |-> Quot(successful_ops, total_ops) ] ]

AnalyzerInit ==
  /\ pc = "analyze"
  /\ entry = "process"
  /\ RunnerIdle
  /\ duration_list = <<>>
  /\ percentiles = Nothing
  /\ test_results \in ResultLists
  /\ baseline_engine \in BaselineNames
  /\ processed_data = Nothing

\* lines 27-50.  The views performance_insights, anomalies and scalability
\* raise nothing and feed no other view; they are left out of processed_data.
Process ==
  /\ pc = "analyze"
  /\ pc' = "analyzed"
  /\ IF ~validate_input(test_results)
     THEN /\ escaped' = InvalidTestResults
          /\ raised_log' = Append(raised_log, InvalidTestResults)
          /\ UNCHANGED processed_data
     ELSE IF compare_engines_raises(test_results)
     THEN /\ escaped' = ZeroDivisionError
          /\ raised_log' = Append(raised_log, ZeroDivisionError)
          /\ UNCHANGED processed_data
     ELSE LET comparison == compare_engines(test_results, baseline_engine)
          IN  /\ \E top_findings \in generate_top_findings(comparison) :
                   processed_data' =
                     [ summary |-> generate_overall_summary(test_results),
                       test_analysis |-> analyze_individual_tests(test_results),
                       engine_comparison |-> comparison,
                       top_findings |-> top_findings ]
              /\ UNCHANGED << escaped, raised_log >>
  /\ UNCHANGED << entry, config, i, metrics, tasks, errors, exc, result,
                  setup_calls, teardown_calls, rst_calls, late_call, call_log,
                  executor, timed_out, duration_list, percentiles,
                  test_results, baseline_engine, resource_vars >>

AnalyzerNext == Process

AnalyzerSpec == AnalyzerInit /\ [][AnalyzerNext]_vars

Analyzed == pc = "analyzed" /\ escaped = ""

\* the per-test comparisons that are not error markers
ComparedTests ==
  IF ~Analyzed \/ IsErrorMarker(processed_data.engine_comparison) THEN {}
  ELSE { t \in DOMAIN processed_data.engine_comparison :
           ~IsErrorMarker(processed_data.engine_comparison[t]) }

\* C18: in every per-test comparison that is not an error marker the
\* baseline is the configured name whenever that engine is compared for the
\* test, even if another engine is faster; otherwise it is a compared engine
\* whose average successful duration is minimal.
C18_BaselineSelection ==
  \A t \in ComparedTests :
    LET c == processed_data.engine_comparison[t]
        em == c.engine_metrics
    IN  IF baseline_engine \in DOMAIN em
        THEN c.baseline_engine = baseline_engine
        ELSE /\ c.baseline_engine \in DOMAIN em
             /\ \A e \in DOMAIN em :
                  ~RatLess(em[e].avg_duration, em[c.baseline_engine].avg_duration)

C18_Witness ==
  /\ Analyzed
  /\ baseline_engine = "docker"
  /\ \E t \in ComparedTests :
       LET c == processed_data.engine_comparison[t]
       IN  /\ c.baseline_engine = "docker"
           /\ RatLess(c.engine_metrics["isulad"].avg_duration,
                      c.engine_metrics["docker"].avg_duration)
           /\ c.relative_performance["isulad"].is_faster

\* the engines with a successful sample for test t in any of their results
WithSuccessfulSamples(t) ==
  { test_results[n].engine_name :
      n \in { m \in 1..Len(test_results) :
                /\ test_results[m].test_name = t
                /\ SuccessfulDurations(test_results[m].metrics) # <<>> } }

\* C19: a non-empty collection with fewer than 2 engine names gets an error
\* marker as engine_comparison and no top finding; a test for which fewer
\* than 2 engines have successful samples gets an error marker as its
\* comparison entry and no top finding; nothing is raised in either case.
C19_InsufficientDataIsMarked ==
  (pc = "analyzed" /\ test_results # <<>>) =>
    /\ Cardinality(EnginesOf(test_results)) < 2 =>
         /\ escaped = ""
         /\ IsErrorMarker(processed_data.engine_comparison)
         /\ processed_data.top_findings = <<>>
    /\ \A t \in TestsOf(test_results) :
         (Cardinality(EnginesOf(test_results)) >= 2
            /\ Cardinality(WithSuccessfulSamples(t)) < 2) =>
           /\ escaped = ""
           /\ IsErrorMarker(processed_data.engine_comparison[t])
           /\ \A n \in 1..Len(processed_data.top_findings) :
                processed_data.top_findings[n].test # t

\* C20: process returns an analysis object and raises nothing for every
\* collection: empty, results without samples, results with failed samples
\* only, two or more engines whose successful samples all have duration 0.
C20_ProcessNeverRaises ==
  (pc = "analyzed") =>
    /\ escaped = ""
    /\ DOMAIN processed_data =
         {"summary", "test_analysis", "engine_comparison", "top_findings"}

\* ------------------------------------------ DataAnalyzer._analyze_scalability
\* A test name is a sequence of tokens: PlainName(t) is "t" and
\* ConcurrentName(t, c) is "t_concurrent_c".
ScalabilityNames ==
  { PlainName(t) : t \in AnalyzerTests }
    \cup { ConcurrentName(t, c) : t \in AnalyzerTests, c \in {1, 4} }

\* re.match(r"^(?P<base>.+)_concurrent_(?P<c>\d+)$", tn); a name that does
\* not match is its own base at concurrency 1
ParseTestName(tn) ==
  IF Len(tn) >= 3 /\ tn[Len(tn) - 1] = "_concurrent_"
  THEN [base |-> SubSeq(tn, 1, Len(tn) - 2), c |-> tn[Len(tn)], sweep |-> TRUE]
  ELSE [base |-> tn, c |-> 1, sweep |-> FALSE]

\* the summary of a run: {} or the three fields the curves read
ScalabilitySummaries ==
  { EmptySummary,
    [operations_per_second |-> 2, p95_duration |-> 3, success_rate |-> 1] }

\* float(s.get(field, 0.0))
SummaryGet(summary, field) ==
  IF field \in DOMAIN summary THEN summary[field] ELSE 0

ScalabilityResults ==
  { [test_name |-> tn, engine_name |-> e, summary |-> sm] :
      tn \in ScalabilityNames, e \in EngineNames, sm \in ScalabilitySummaries }

ScalabilityLists == UNION { [1..n -> ScalabilityResults] : n \in 0..MaxResults }

\* every base is reported
HasSweepAlways(rs, base) ==
  \E n \in 1..Len(rs) : ParseTestName(rs[n].test_name).base = base

\* has_sweep[base]
HasSweep(rs, base) ==
  \E n \in 1..Len(rs) :
    /\ ParseTestName(rs[n].test_name).base = base
    /\ ParseTestName(rs[n].test_name).sweep

\* the runs that wrote curves[base][eng][c]; the last one is the one kept
PointRuns(rs, base, eng, c) ==
  { n \in 1..Len(rs) :
      /\ rs[n].engine_name = eng
      /\ ParseTestName(rs[n].test_name).base = base
      /\ ParseTestName(rs[n].test_name).c = c }

Point(rs, base, eng, c) ==
  LET n == CHOOSE m \in PointRuns(rs, base, eng, c) :
             \A o \in PointRuns(rs, base, eng, c) : o <= m
  IN  [ operations_per_second |-> SummaryGet(rs[n].summary, "operations_per_second"),
        p95_duration |-> SummaryGet(rs[n].summary, "p95_duration"),
        success_rate |-> SummaryGet(rs[n].summary, "success_rate") ]

\* sorted(pts.keys())
RECURSIVE Ascending(_)
Ascending(S) ==
  IF S = {} THEN <<>>
  ELSE LET least == CHOOSE x \in S : \A y \in S : x <= y
       IN  << least >> \o Ascending(S \ {least})

analyze_scalability(rs) ==
  LET bases == { b \in { ParseTestName(rs[n].test_name).base : n \in 1..Len(rs) } :
                   HasSweep(rs, b) }
      engines(b) == { rs[n].engine_name :
                        n \in { m \in 1..Len(rs) :
                                  ParseTestName(rs[m].test_name).base = b } }
      levels(b, e) == { ParseTestName(rs[n].test_name).c :
                          n \in { m \in 1..Len(rs) :
                                    /\ rs[m].engine_name = e
                                    /\ ParseTestName(rs[m].test_name).base = b } }
  IN  [ b \in bases |->
        [ engines |->
          [ e \in engines(b) |->
              LET xs == Ascending(levels(b, e))
              IN  [ concurrency |-> xs,
                    ops_per_sec |->
                      [k \in 1..Len(xs) |-> Point(rs, b, e, xs[k]).operations_per_second],
                    p95_duration |->
                      [k \in 1..Len(xs) |-> Point(rs, b, e, xs[k]).p95_duration],
                    success_rate |->
                      [k \in 1..Len(xs) |-> Point(rs, b, e, xs[k]).success_rate] ] ] ] ]

ScalabilityInit ==
  /\ pc = "scalability"
  /\ entry = "_analyze_scalability"
  /\ RunnerIdle
  /\ duration_list = <<>>
  /\ percentiles = Nothing
  /\ test_results \in ScalabilityLists
  /\ baseline_engine = ""
  /\ processed_data = Nothing

AnalyzeScalability ==
  /\ pc = "scalability"
  /\ pc' = "scalability_done"
  /\ processed_data' = [scalability |-> analyze_scalability(test_results)]
  /\ UNCHANGED << entry, runner_vars, duration_list, percentiles,
                  test_results, baseline_engine >>

ScalabilityNext == AnalyzeScalability

ScalabilitySpec == ScalabilityInit /\ [][ScalabilityNext]_vars

\* C21: a base test is reported only if some input is named
\* "{base}_concurrent_{N}"; per base and engine the concurrency list is
\* strictly ascending and the three value lists have its length, entry k
\* coming from a run of that engine at concurrency[k].
C21_ScalabilityCurves ==
  (pc = "scalability_done") =>
    LET out == processed_data.scalability
    IN  \A b \in DOMAIN out :
          /\ \E n \in 1..Len(test_results) : \E c \in {1, 4} :
               /\ Len(b) = 1
               /\ test_results[n].test_name = ConcurrentName(b[1], c)
          /\ \A e \in DOMAIN out[b].engines :
               LET curve == out[b].engines[e]
                   xs == curve.concurrency
               IN  /\ xs # <<>>
                   /\ \A k \in 1..(Len(xs) - 1) : xs[k] < xs[k + 1]
                   /\ Len(curve.ops_per_sec) = Len(xs)
                   /\ Len(curve.p95_duration) = Len(xs)
                   /\ Len(curve.success_rate) = Len(xs)
                   /\ \A k \in 1..Len(xs) :
                        \E n \in 1..Len(test_results) :
                          /\ test_results[n].engine_name = e
                          /\ test_results[n].test_name \in
                               { ConcurrentName(b[1], xs[k]) } \cup
                               (IF xs[k] = 1 THEN { b } ELSE {})
                          /\ curve.ops_per_sec[k] =
                               SummaryGet(test_results[n].summary, "operations_per_second")
                          /\ curve.p95_duration[k] =
                               SummaryGet(test_results[n].summary, "p95_duration")
                          /\ curve.success_rate[k] =
                               SummaryGet(test_results[n].summary, "success_rate")

\* [test_concurrent_1, test_concurrent_4] gives concurrency [1, 4], and the
\* lone pull_image beside them gives no entry
C21_Witness ==
  /\ pc = "scalability_done"
  /\ Len(test_results) = 3
  /\ test_results[1].test_name = ConcurrentName("create_container", 1)
  /\ test_results[2].test_name = ConcurrentName("create_container", 4)
  /\ test_results[3].test_name = PlainName("pull_image")
  /\ test_results[1].engine_name = "isulad"
  /\ test_results[2].engine_name = "isulad"
  /\ DOMAIN processed_data.scalability = { PlainName("create_container") }
  /\ processed_data.scalability[PlainName("create_container")].engines["isulad"].concurrency
       = << 1, 4 >>

\* ---------------------------------------------- DataAnalyzer._detect_anomalies
\* if len(durations) < 3: continue
MinAnomalySamples == 3
\* threshold = mean_duration + 3 * stdev_duration
SigmaFactor == 3

AnomalySamples ==
  { PerformanceMetrics(TRUE, 1, FALSE),
    PerformanceMetrics(TRUE, 100, FALSE),
    PerformanceMetrics(FALSE, 100, FALSE) }

\* ten samples of duration 1 and one of duration 100
LongRun ==
  [n \in 1..11 |-> PerformanceMetrics(TRUE, IF n = 11 THEN 100 ELSE 1, FALSE)]

AnomalyMetrics ==
  UNION { [1..n -> AnomalySamples] : n \in 0..(MaxData + 1) } \cup { LongRun }

AnomalyResult(e, ms) ==
  [test_name |-> TestName, engine_name |-> e, metrics |-> ms]

\* one result, or one result after another engine's long run
AnomalyLists ==
  { << AnomalyResult("isulad", ms) >> : ms \in AnomalyMetrics }
    \cup { << AnomalyResult("docker", LongRun), AnomalyResult("isulad", ms) >> :
             ms \in AnomalyMetrics }

SumSquares(ds) == SumSeq([n \in 1..Len(ds) |-> ds[n] * ds[n]])

\* duration > mean + 3 * stdev, statistics.stdev being the sample standard
\* deviation sqrt((n*sum(x^2) - sum(x)^2) / (n*(n-1))); compared exactly,
\* both sides of d - mean > 3 * stdev squared and cleared of denominators
ExceedsThreshold(d, ds) ==
  LET n == Len(ds)
      total == SumSeq(ds)
  IN  /\ n * d > total
      /\ (n * d - total) * (n * d - total) * (n - 1)
           > SigmaFactor * SigmaFactor * n * (n * SumSquares(ds) - total * total)

\* the entries reported for one result (deviation_sigma is left out)
ResultAnomalies(r) ==
  LET durations == SuccessfulDurations(r.metrics)
  IN  IF r.metrics = <<>> \/ Len(durations) < MinAnomalySamples THEN <<>>
      ELSE LET flagged == { k \in 1..Len(durations) :
                              ExceedsThreshold(durations[k], durations) }
           IN  [ j \in 1..Cardinality(flagged) |->
                   LET k == Ascending(flagged)[j]
                   IN  [ type |-> "outlier_duration",
                         test |-> r.test_name,
                         engine |-> r.engine_name,
                         iteration |-> k - 1,
                         duration |-> durations[k],
                         mean_duration |-> Quot(SumSeq(durations), Len(durations)) ] ]

RECURSIVE detect_anomalies(_)
detect_anomalies(rs) ==
  IF rs = <<>> THEN <<>>
  ELSE detect_anomalies(SubSeq(rs, 1, Len(rs) - 1)) \o ResultAnomalies(rs[Len(rs)])

AnomalyInit ==
  /\ pc = "anomalies"
  /\ entry = "_detect_anomalies"
  /\ RunnerIdle
  /\ duration_list = <<>>
  /\ percentiles = Nothing
  /\ test_results \in AnomalyLists
  /\ baseline_engine = ""
  /\ processed_data = Nothing

DetectAnomalies ==
  /\ pc = "anomalies"
  /\ pc' = "anomalies_done"
  /\ processed_data' = [anomalies |-> detect_anomalies(test_results)]
  /\ UNCHANGED << entry, runner_vars, duration_list, percentiles,
                  test_results, baseline_engine >>

AnomalyNext == DetectAnomalies

AnomalySpec == AnomalyInit /\ [][AnomalyNext]_vars

\* the outlier entries reported for engine e
ReportedFor(e) ==
  SelectSeq(processed_data.anomalies, LAMBDA a : a.engine = e)

\* C22: every result with at least 3 successful samples gets one outlier
\* entry per duration above mean + 3*stdev and no other entry; durations
\* [1,1,1,1,1,100] get 100 flagged, durations [1,1,1] get nothing.
C22_OutliersFlagged ==
  (pc = "anomalies_done") =>
    \A n \in 1..Len(test_results) :
      LET r == test_results[n]
          ds == SuccessfulDurations(r.metrics)
          reported == ReportedFor(r.engine_name)
      IN  /\ Len(ds) < MinAnomalySamples => reported = <<>>
          /\ Len(ds) >= MinAnomalySamples =>
               /\ \A k \in 1..Len(ds) :
                    ExceedsThreshold(ds[k], ds) <=>
                      \E j \in 1..Len(reported) :
                        reported[j].iteration = k - 1 /\ reported[j].duration = ds[k]
               /\ Len(reported) =
                    Cardinality({ k \in 1..Len(ds) : ExceedsThreshold(ds[k], ds) })
          /\ ds = << 1, 1, 1 >> => reported = <<>>
          /\ ds = << 1, 1, 1, 1, 1, 100 >> =>
               \E j \in 1..Len(reported) : reported[j].duration = 100

\* --------------------- the trend of DataAnalyzer._generate_performance_insights
\* if abs(trend) > 0.1, as the quotient 1 / TrendThresholdInverse
TrendThresholdInverse == 10

StartTimes == 1..3

TrendMetrics ==
  { <<>>,
    << PerformanceMetrics(FALSE, 10, FALSE) >>,
    << PerformanceMetrics(TRUE, 0, FALSE) >>,
    << PerformanceMetrics(TRUE, 10, FALSE) >>,
    << PerformanceMetrics(TRUE, 11, FALSE) >>,
    << PerformanceMetrics(TRUE, 12, FALSE) >>,
    << PerformanceMetrics(TRUE, 10, FALSE), PerformanceMetrics(TRUE, 12, FALSE) >> }

TrendResults ==
  { [test_name |-> TestName, engine_name |-> "isulad", start_time |-> st, metrics |-> ms] :
      st \in StartTimes, ms \in TrendMetrics }

TrendLists == UNION { [1..n -> TrendResults] : n \in 0..MaxResults }

\* sorted(test_results, key=lambda x: x.start_time): stable, equal start
\* times keep their input order
SortedByStartTime(rs) ==
  LET place(n) ==
        1 + Cardinality({ m \in 1..Len(rs) :
                            \/ rs[m].start_time < rs[n].start_time
                            \/ rs[m].start_time = rs[n].start_time /\ m < n })
  IN  [ k \in 1..Len(rs) |-> rs[CHOOSE n \in 1..Len(rs) : place(n) = k] ]

\* the first half takes the middle result
first_half_rounded_up(sorted_results) ==
  SubSeq(sorted_results, 1, (Len(sorted_results) + 1) \div 2)

\* sorted_results[:len(sorted_results)//2]
first_half(sorted_results) ==
  SubSeq(sorted_results, 1, Len(sorted_results) \div 2)

\* sorted_results[len(sorted_results)//2:]
second_half(sorted_results) ==
  SubSeq(sorted_results, Len(sorted_results) \div 2 + 1, Len(sorted_results))

\* lines 471-483: the pooled average of the successful durations, 0 if none
calculate_avg_duration(results) ==
  LET total_duration ==
        SumSeq([n \in 1..Len(results) |-> SumSeq(SuccessfulDurations(results[n].metrics))])
      count ==
        SumSeq([n \in 1..Len(results) |-> Len(SuccessfulDurations(results[n].metrics))])
  IN  IF count > 0 THEN Quot(total_duration, count) ELSE Quot(0, 1)

\* lines 418-435
trends(rs) ==
  IF Len(rs) > 1
  THEN LET sorted_results == SortedByStartTime(rs)
           first_avg == calculate_avg_duration(first_half(sorted_results))
           second_avg == calculate_avg_duration(second_half(sorted_results))
           \* second_avg - first_avg over the common denominator
           diff == second_avg[1] * first_avg[2] - first_avg[1] * second_avg[2]
           abs_diff == IF diff < 0 THEN 0 - diff ELSE diff
       IN  IF /\ first_avg[1] > 0 /\ second_avg[1] > 0
              /\ TrendThresholdInverse * abs_diff > first_avg[1] * second_avg[2]
           THEN << [ type |-> "performance_trend",
                     description |-> IF diff < 0 THEN "improved" ELSE "degraded",
                     change |-> Quot(diff, first_avg[1] * second_avg[2]) ] >>
           ELSE <<>>
  ELSE <<>>

TrendInit ==
  /\ pc = "trends"
  /\ entry = "_generate_performance_insights"
  /\ RunnerIdle
  /\ duration_list = <<>>
  /\ percentiles = Nothing
  /\ test_results \in TrendLists
  /\ baseline_engine = ""
  /\ processed_data = Nothing

DetectTrend ==
  /\ pc = "trends"
  /\ pc' = "trends_done"
  /\ processed_data' = [trends |-> trends(test_results)]
  /\ UNCHANGED << entry, runner_vars, duration_list, percentiles,
                  test_results, baseline_engine >>

TrendNext == DetectTrend

TrendSpec == TrendInit /\ [][TrendNext]_vars

\* The successful durations of the results of rank lo..hi by start time
\* (rank 1 the earliest), pooled: their sum and their number.
RankOf(n) ==
  1 + Cardinality({ m \in 1..Len(test_results) :
                      \/ test_results[m].start_time < test_results[n].start_time
                      \/ /\ test_results[m].start_time = test_results[n].start_time
                         /\ m < n })
PooledSum(lo, hi) ==
  SumSeq([ n \in 1..Len(test_results) |->
             IF RankOf(n) >= lo /\ RankOf(n) <= hi
             THEN SumSeq(SuccessfulDurations(test_results[n].metrics)) ELSE 0 ])
PooledCount(lo, hi) ==
  SumSeq([ n \in 1..Len(test_results) |->
             IF RankOf(n) >= lo /\ RankOf(n) <= hi
             THEN Len(SuccessfulDurations(test_results[n].metrics)) ELSE 0 ])

\* C23: at most one trend entry; with n >= 2 results the first half is the
\* floor(n/2) earliest, the second half the rest; a trend is reported
\* exactly when both pooled averages are positive and differ by more than
\* 10% of the first, improved when the second is lower, degraded when it
\* is higher; fewer than 2 results give no trend.
C23_TrendDetection ==
  (pc = "trends_done") =>
    LET n == Len(test_results)
        h == n \div 2
        fs == PooledSum(1, h)
        fc == PooledCount(1, h)
        ss == PooledSum(h + 1, n)
        sc == PooledCount(h + 1, n)
        \* second/first averages compared as ss/sc and fs/fc
        lower == ss * fc < fs * sc
        gap == IF lower THEN fs * sc - ss * fc ELSE ss * fc - fs * sc
        expected == /\ n >= 2
                    /\ fc > 0 /\ sc > 0 /\ fs > 0 /\ ss > 0
                    /\ 10 * gap > fs * sc
    IN  /\ Len(processed_data.trends) <= 1
        /\ expected <=> Len(processed_data.trends) = 1
        /\ Len(processed_data.trends) = 1 =>
             processed_data.trends[1].description =
               (IF lower THEN "improved" ELSE "degraded")

\* three results given out of start order; the earliest alone is the first
\* half at 12, the later two pool to 32/3, more than 10% below: improved
C23_Witness ==
  /\ pc = "trends_done"
  /\ Len(test_results) = 3
  /\ test_results[1].start_time = 3
  /\ test_results[2].start_time = 1
  /\ test_results[3].start_time = 2
  /\ SuccessfulDurations(test_results[2].metrics) = << 12 >>
  /\ SuccessfulDurations(test_results[1].metrics) = << 10, 12 >>
  /\ SuccessfulDurations(test_results[3].metrics) = << 10 >>
  /\ Len(processed_data.trends) = 1
  /\ processed_data.trends[1].description = "improved"

\* --------------------- DataAnalyzer._generate_top_findings on ordered dicts
\* engine_comparison and relative_performance are dicts, iterated in
\* insertion order: each is a sequence of items here.  The sort is stable,
\* so the order of the items decides the order of findings with equal keys.
ComparedEngines == << "isulad", "docker", "crio", "containerd" >>

\* baseline_avg / avg of an engine that is not the baseline
PerformanceRatios == { Quot(1, 2), Quot(3, 1) }

\* one per-test comparison whose baseline is the first engine
Comparison(ratios) ==
  [ baseline_engine |-> ComparedEngines[1],
    relative_performance |->
      [ k \in 1..Len(ComparedEngines) |->
          [ engine |-> ComparedEngines[k],
            performance_ratio |-> IF k = 1 THEN Quot(1, 1) ELSE ratios[k - 1],
            relative_duration |->
              IF k = 1 THEN Quot(1, 1) ELSE Quot(ratios[k - 1][2], ratios[k - 1][1]) ] ] ]

TestComparisons ==
  { ErrorMarker(InsufficientData) }
    \cup { Comparison(ratios) :
             ratios \in [1..(Len(ComparedEngines) - 1) -> PerformanceRatios] }

\* the items of engine_comparison: one per test, or the single item of
\* {"error": reason}, whose value is a string and no dict
ComparisonItems ==
  UNION { [1..n -> TestComparisons] : n \in 0..MaxTests }
    \cup { << [not_a_dict |-> NeedTwoEngines] >> }

IsDict(value) == "not_a_dict" \notin DOMAIN value

\* lines 346-361 for the item at position t
ItemFindings(items, t) ==
  LET comp == items[t]
  IN  IF ~IsDict(comp) \/ IsErrorMarker(comp) THEN <<>>
      ELSE LET rel == comp.relative_performance
               kept == SelectSeq(rel, LAMBDA relm :
                         /\ relm.engine # comp.baseline_engine
                         /\ relm.performance_ratio[1] > 0)
           IN  [ k \in 1..Len(kept) |->
                   [ test |-> t,
                     baseline |-> comp.baseline_engine,
                     other |-> kept[k].engine,
                     performance_ratio |-> kept[k].performance_ratio,
                     relative_duration |-> kept[k].relative_duration ] ]

RECURSIVE collect_findings(_, _)
collect_findings(items, t) ==
  IF t = 0 THEN <<>>
  ELSE collect_findings(items, t - 1) \o ItemFindings(items, t)

\* weakest effect first
sort_findings_ascending(findings) ==
  LET key(n) == AbsDeviation(findings[n].performance_ratio)
      place(n) == 1 + Cardinality({ m \in 1..Len(findings) :
                                      \/ RatLess(key(m), key(n))
                                      \/ /\ ~RatLess(key(n), key(m))
                                         /\ m < n })
  IN  [ k \in 1..Len(findings) |->
          findings[CHOOSE n \in 1..Len(findings) : place(n) = k] ]

\* findings.sort(key=lambda x: abs(ratio - 1.0), reverse=True): stable
sort_findings(findings) ==
  LET key(n) == AbsDeviation(findings[n].performance_ratio)
      place(n) == 1 + Cardinality({ m \in 1..Len(findings) :
                                      \/ RatLess(key(n), key(m))
                                      \/ /\ ~RatLess(key(m), key(n))
                                         /\ m < n })
  IN  [ k \in 1..Len(findings) |->
          findings[CHOOSE n \in 1..Len(findings) : place(n) = k] ]

top_findings_of(items) ==
  LET findings == sort_findings(collect_findings(items, Len(items)))
  IN  SubSeq(findings, 1,
             IF Len(findings) < TopFindingsLimit THEN Len(findings)
             ELSE TopFindingsLimit)

FindingsInit ==
  /\ pc = "findings"
  /\ entry = "_generate_top_findings"
  /\ RunnerIdle
  /\ duration_list = <<>>
  /\ percentiles = Nothing
  /\ test_results = <<>>
  /\ baseline_engine = ""
  /\ \E items \in ComparisonItems : processed_data = [engine_comparison |-> items]

\* line 42: processed_data["top_findings"] = self._generate_top_findings(...)
GenerateTopFindings ==
  /\ pc = "findings"
  /\ pc' = "findings_done"
  /\ processed_data' =
       [ engine_comparison |-> processed_data.engine_comparison,
         top_findings |-> top_findings_of(processed_data.engine_comparison) ]
  /\ UNCHANGED << entry, runner_vars, duration_list, percentiles,
                  test_results, baseline_engine >>

FindingsNext == GenerateTopFindings

FindingsSpec == FindingsInit /\ [][FindingsNext]_vars

\* the candidate entries: <<position of the test, engine>> for every engine
\* other than the baseline of a comparison that is no error marker
Candidates ==
  LET items == processed_data.engine_comparison
  IN  { c \in (1..Len(items)) \X { ComparedEngines[k] : k \in 1..Len(ComparedEngines) } :
          /\ IsDict(items[c[1]])
          /\ ~IsErrorMarker(items[c[1]])
          /\ c[2] # items[c[1]].baseline_engine }

CandidateRatio(c) ==
  LET rel == processed_data.engine_comparison[c[1]].relative_performance
  IN  rel[CHOOSE k \in 1..Len(rel) : rel[k].engine = c[2]].performance_ratio

\* C24: top_findings has at most 8 entries in non-increasing order of
\* |performance_ratio - 1|, none for a test's baseline engine, each from a
\* comparison that is no error marker; of more than 8 candidates the 8
\* furthest from 1 are kept.
C24_TopFindingsRanked ==
  (pc = "findings_done") =>
    LET tf == processed_data.top_findings
        kept == { << tf[n].test, tf[n].other >> : n \in 1..Len(tf) }
    IN  /\ Len(tf) <= 8
        /\ \A n \in 1..(Len(tf) - 1) :
             ~RatLess(AbsDeviation(tf[n].performance_ratio),
                      AbsDeviation(tf[n + 1].performance_ratio))
        /\ kept \subseteq Candidates
        /\ Cardinality(kept) = Len(tf)
        /\ \A n \in 1..Len(tf) :
             tf[n].performance_ratio = CandidateRatio(<< tf[n].test, tf[n].other >>)
        /\ Len(tf) = (IF Cardinality(Candidates) < 8 THEN Cardinality(Candidates) ELSE 8)
        /\ \A c \in Candidates \ kept : \A d \in kept :
             ~RatLess(AbsDeviation(CandidateRatio(d)), AbsDeviation(CandidateRatio(c)))

\* nine candidates, eight kept, the one left out strictly nearer to 1
C24_Witness ==
  /\ pc = "findings_done"
  /\ Cardinality(Candidates) = 9
  /\ Len(processed_data.top_findings) = 8
  /\ \E c \in Candidates :
       /\ \A n \in 1..8 :
            /\ << processed_data.top_findings[n].test,
                  processed_data.top_findings[n].other >> # c
            /\ RatLess(AbsDeviation(CandidateRatio(c)),
                       AbsDeviation(processed_data.top_findings[n].performance_ratio))
       /\ c[1] = 1

\* ------------------------------------------ DataAnalyzer._analyze_test_group
\* The samples of a TestResult as run_test leaves them: warmup samples are
\* kept in metrics, tagged warmup = TRUE.
GroupSamples ==
  { PerformanceMetrics(s, d, w) : s \in BOOLEAN, d \in {1, 3}, w \in BOOLEAN }
    \ { PerformanceMetrics(FALSE, 3, w) : w \in BOOLEAN }

GroupMetrics == UNION { [1..n -> GroupSamples] : n \in 0..MaxLen }

GroupResult(e, ms) == [test_name |-> TestName, engine_name |-> e, metrics |-> ms]

\* one result, or one result after a fixed result of the other engine
GroupLists ==
  { << GroupResult(e, ms) >> : e \in EngineNames, ms \in GroupMetrics }
    \cup { << GroupResult("docker", << PerformanceMetrics(TRUE, 1, FALSE) >>),
              GroupResult(e, ms) >> : e \in EngineNames, ms \in GroupMetrics }

RECURSIVE AllMetrics(_)
AllMetrics(results) ==
  IF results = <<>> THEN <<>>
  ELSE results[1].metrics \o AllMetrics(Tail(results))

\* statistics.median of a non-empty list
Median(ds) ==
  LET data_sorted == sorted(ds)
      n == Len(ds)
  IN  IF n % 2 = 1 THEN Quot(data_sorted[(n + 1) \div 2], 1)
      ELSE Quot(data_sorted[n \div 2] + data_sorted[n \div 2 + 1], 2)

\* the duration statistics of lines 185-200 and 240-251; std_duration and
\* cv_duration (square roots) are left out
DurationStatistics(ds) ==
  [ avg_duration |-> Quot(SumSeq(ds), Len(ds)),
    min_duration |-> MinSeq(ds),
    max_duration |-> MaxSeq(ds),
    median_duration |-> Median(ds),
    p25_duration |-> DataAnalyzer_percentile(ds, 25),
    p75_duration |-> DataAnalyzer_percentile(ds, 75),
    p95_duration |-> DataAnalyzer_percentile(ds, 95),
    p99_duration |-> DataAnalyzer_percentile(ds, 99),
    operations_per_second |-> Quot(Len(ds), SumSeq(ds)) ]

\* lines 204-253 for one engine
EngineEntry(results, e) ==
  LET engine_metrics_list == AllMetrics(SelectSeq(results, LAMBDA r : r.engine_name = e))
      engine_durations == SuccessfulDurations(engine_metrics_list)
  IN  [ operation_count |-> Len(engine_metrics_list),
        successful_count |-> Len(engine_durations),
        failed_count |-> Len(engine_metrics_list) - Len(engine_durations),
        statistics |-> IF engine_durations = <<>> THEN Nothing
                       ELSE DurationStatistics(engine_durations) ]

\* lines 158-255 for a non-empty group
analyze_test_group(results) ==
  LET all_metrics == AllMetrics(results)
      durations == SuccessfulDurations(all_metrics)
  IN  IF all_metrics = <<>> THEN ErrorMarker(NoMetricsAvailable)
      ELSE [ test_count |-> Len(results),
             total_operations |-> Len(all_metrics),
             successful_operations |-> Len(durations),
             statistics |-> IF durations = <<>> THEN Nothing
                            ELSE DurationStatistics(durations),
             engines |-> [ e \in EnginesOf(results) |-> EngineEntry(results, e) ] ]

GroupInit ==
  /\ pc = "group"
  /\ entry = "_analyze_test_group"
  /\ RunnerIdle
  /\ duration_list = <<>>
  /\ percentiles = Nothing
  /\ test_results \in GroupLists
  /\ baseline_engine = ""
  /\ processed_data = Nothing

\* lines 144-156: the only test name of the input is analysed
AnalyzeTestGroup ==
  /\ pc = "group"
  /\ pc' = "group_done"
  /\ processed_data' =
       [ test_analysis |-> [ t \in {TestName} |-> analyze_test_group(test_results) ] ]
  /\ UNCHANGED << entry, runner_vars, duration_list, percentiles,
                  test_results, baseline_engine >>

GroupNext == AnalyzeTestGroup

GroupSpec == GroupInit /\ [][GroupNext]_vars

\* the same results with the warmup-tagged samples removed
WithoutWarmup(results) ==
  [ n \in 1..Len(results) |->
      [ results[n] EXCEPT !.metrics = SelectSeq(@, LAMBDA m : ~m.warmup) ] ]

\* C25: the test_analysis entry of a test is computed over measured samples
\* only: it equals the entry of the same results without their warmup-tagged
\* samples.
C25_MeasuredSamplesOnly ==
  (pc = "group_done") =>
    processed_data.test_analysis[TestName]
      = analyze_test_group(WithoutWarmup(test_results))

\* ------------- _run_concurrent_iteration with the CRI and client executors
\* the test names CRIExecutor.run_single_test dispatches on
CRITests ==
  { "pull_image", "list_containers", "list_images", "create_container",
    "start_container", "stop_container", "remove_container", "container_stats" }

\* the test names ClientExecutor.run_single_test dispatches on
ClientTests ==
  { "pull_image", "create_container", "start_container", "stop_container",
    "remove_container", "list_containers", "list_images", "exec_command", "logs" }

AcceptedTests(ex) == IF ex = "cri" THEN CRITests ELSE ClientTests

UnknownTest == "unknown test"

\* line 284: f"{test_name}_task_{task_id}"
TaskTestName(name, task_id) == << name, "_task_", task_id >>

\* the chain of name == "..." comparisons: the operation run for a context
\* name, which is one of the accepted names or nothing
DispatchOf(ex, name) ==
  IF \E t \in AcceptedTests(ex) : name = PlainName(t)
  THEN CHOOSE t \in AcceptedTests(ex) : name = PlainName(t)
  ELSE UnknownTest

\* str(ValueError(f"Unknown CRI test: {name}")) and the client's text
UnknownTestText(ex, name) ==
  << (IF ex = "cri" THEN "Unknown CRI test: " ELSE "Unknown client test: "), name >>

DispatchInit ==
  /\ pc = "ct_setup"
  /\ entry = "run_concurrent_test"
  /\ executor \in {"cri", "client"}
  /\ config \in Configs
  /\ i = 0
  /\ metrics = <<>>
  /\ tasks = <<>>
  /\ errors = <<>>
  /\ exc = ""
  /\ result = NoResult
  /\ escaped = ""
  /\ setup_calls = 0
  /\ teardown_calls = 0
  /\ rst_calls = 0
  /\ late_call = FALSE
  /\ raised_log = <<>>
  /\ call_log = <<>>
  /\ timed_out = 0
  /\ duration_list = <<>>
  /\ percentiles = Nothing
  /\ test_results = <<>>
  /\ baseline_engine = ""
  /\ processed_data = Nothing
  /\ test_name \in AcceptedTests(executor)
  /\ created = <<>>
  /\ tmpdir = 0
  /\ commands = <<>>
  /\ cleanup_items = <<>>

\* lines 283-291 with the executor's run_single_test: the call of task t
\* dispatches on the context's test name.  An unknown name raises out of the
\* CRI executor and is recorded as one failed sample of duration 0 by the
\* client executor.
DispatchFinish(t) ==
  /\ tasks[t].status = "awaiting"
  /\ LET name == TaskTestName(test_name, t - 1)
         operation == DispatchOf(executor, name)
     IN  /\ call_log' = Append(call_log,
              [ task_id |-> t - 1, test_name |-> name, operation |-> operation ])
         /\ IF operation # UnknownTest
            THEN \E test_metrics \in ProbeReturns(FALSE) :
                   tasks' = [tasks EXCEPT ![t] =
                               Task("ready", @.i + 1, @.metrics \o test_metrics)]
            ELSE IF executor = "cri"
            THEN tasks' = [tasks EXCEPT ![t].status = "failed"]
            ELSE tasks' = [tasks EXCEPT ![t] =
                             Task("ready", @.i + 1,
                                  @.metrics \o << ExecSample(FALSE, 0, FALSE,
                                                    UnknownTestText(executor, name)) >>)]
  /\ UNCHANGED << config, entry, pc, i, metrics, errors, exc, result, escaped,
                  setup_calls, teardown_calls, rst_calls, late_call, raised_log,
                  executor, timed_out, other_vars >>

\* str(result) of every task that ended with an exception, in task order
DispatchErrors(ts) ==
  LET failed == SelectSeq([t \in 1..Len(ts) |-> t], LAMBDA t : ts[t].status = "failed")
  IN  [ k \in 1..Len(failed) |->
          UnknownTestText(executor, TaskTestName(test_name, failed[k] - 1)) ]

\* lines 228-260 once the executor's teardown has returned; the summary of
\* samples whose durations are all 0 raises into the except branch
DispatchTeardown ==
  /\ pc = "ct_teardown"
  /\ teardown_calls' = teardown_calls + 1
  /\ LET all_metrics == MergeMetrics(tasks)
         errs == DispatchErrors(tasks)
         summary == generate_summary(all_metrics)
     IN  /\ errors' = errs
         /\ IF generate_summary_raises(all_metrics)
            THEN /\ Raise(ZeroDivisionError, "ct_except")
                 /\ UNCHANGED result
            ELSE /\ result' = TestResult(
                      ConcurrentName(test_name, config.concurrency), all_metrics,
                      summary, ConcurrentSuccess(errs, summary),
                      IF errs # <<>> THEN ConcurrentErrors(errs) ELSE NoMessage)
                 /\ pc' = "done"
                 /\ UNCHANGED << exc, raised_log >>
  /\ UNCHANGED << config, entry, i, metrics, tasks, escaped,
                  setup_calls, rst_calls, late_call,
                  executor, timed_out, call_log, other_vars >>

DispatchNext ==
  \/ ConcurrentSetup
  \/ \E t \in 1..Len(tasks) : TaskCall(t)
  \/ \E t \in 1..Len(tasks) : DispatchFinish(t)
  \/ \E t \in 1..Len(tasks) : TaskDone(t)
  \/ Gather
  \/ DispatchTeardown
  \/ ConcurrentExcept

DispatchSpec == DispatchInit /\ [][DispatchNext]_vars

\* C27: every run_single_test call of a concurrent task runs the operation
\* that sequential mode runs for the test name, and none ends as an unknown
\* test.
C27_TasksRunTheSequentialOperation ==
  \A n \in 1..Len(call_log) :
    /\ call_log[n].operation = DispatchOf(executor, PlainName(test_name))
    /\ call_log[n].operation # UnknownTest

\* --------------------------------- CRIExecutor._cri_container_lifecycle
\* the requested steps, and the operation names of the samples, in order
LifecycleSteps ==
  << "create_container", "start_container", "stop_container", "remove_container" >>

LifecycleOperations ==
  << "run_pod_sandbox", "create_container", "start_container",
     "stop_container", "remove_container" >>

\* the crictl verb of each operation
LifecycleVerbs == << "runp", "create", "start", "stop", "rm" >>

\* what one _run call does: exit code 0, a non-zero exit code, or the
\* RuntimeError of a command that timed out
CommandOutcomes == { "ok", "nonzero", "timeout" }

Command(verb, id) == [verb |-> verb, id |-> id]

LifecycleSample(operation, success, warmup) ==
  [ operation |-> operation, success |-> success, duration |-> 1, warmup |-> warmup ]

\* the ids crictl printed for the pods and containers recorded so far
NextId == Len(created) + 1
LastId(kind) ==
  LET recorded == SelectSeq(created, LAMBDA item : item[1] = kind)
  IN  recorded[Len(recorded)][2]

\* the resources earlier calls of the run have recorded: none or one
\* complete pod with its container
EarlierCreated == { <<>>, << <<"pod", 1>>, <<"container", 2>> >> }

LifecycleInit ==
  /\ pc = "lc_runp"
  /\ entry = "run_single_test"
  /\ executor = "cri"
  /\ config = [concurrency |-> 1, iterations |-> 1, warmup_iterations |-> 0]
  /\ i \in {0, 1}
  /\ metrics = <<>>
  /\ tasks = <<>>
  /\ errors = <<>>
  /\ exc = ""
  /\ result = NoResult
  /\ escaped = ""
  /\ setup_calls = 1
  /\ teardown_calls = 0
  /\ rst_calls = 1
  /\ late_call = FALSE
  /\ raised_log = <<>>
  /\ call_log = <<>>
  /\ timed_out = 0
  /\ duration_list = <<>>
  /\ percentiles = Nothing
  /\ test_results = <<>>
  /\ baseline_engine = ""
  /\ processed_data = Nothing
  /\ test_name \in { LifecycleSteps[k] : k \in 1..Len(LifecycleSteps) }
  /\ created \in EarlierCreated
  /\ tmpdir = 1
  /\ commands = <<>>
  /\ cleanup_items = <<>>

\* context.warmup of the call: i = 1 stands for a warmup call
LifecycleWarmup == i = 1

\* a _run call that times out raises out of run_single_test
LifecycleRaise(verb, id) ==
  /\ commands' = Append(commands, Command(verb, id))
  /\ pc' = "lc_raised"
  /\ exc' = CommandTimedOut
  /\ raised_log' = Append(raised_log, CommandTimedOut)
  /\ timed_out' = timed_out + 1
  /\ UNCHANGED << metrics, created >>

\* the step is over: return at the requested step, or go on
AfterStep(step, next) == IF test_name = step THEN "lc_returned" ELSE next

lifecycle_unchanged ==
  << config, entry, i, tasks, errors, result, escaped, setup_calls,
     teardown_calls, rst_calls, late_call, call_log, executor,
     duration_list, percentiles, test_results, baseline_engine,
     processed_data, test_name, tmpdir, cleanup_items >>

\* lines 262-280: runp, its sample, return on failure, record the pod
LifecycleRunp ==
  /\ pc = "lc_runp"
  /\ \E outcome \in CommandOutcomes :
       IF outcome = "timeout" THEN LifecycleRaise("runp", 0)
       ELSE /\ commands' = Append(commands, Command("runp", 0))
            /\ metrics' = Append(metrics,
                 LifecycleSample("run_pod_sandbox", outcome = "ok", LifecycleWarmup))
            /\ IF outcome = "ok"
               THEN created' = Append(created, <<"pod", NextId>>) /\ pc' = "lc_create"
               ELSE created' = created /\ pc' = "lc_returned"
            /\ UNCHANGED << exc, raised_log, timed_out >>
  /\ UNCHANGED lifecycle_unchanged

\* lines 282-304: create, its sample, return on failure, record the container
LifecycleCreate ==
  /\ pc = "lc_create"
  /\ \E outcome \in CommandOutcomes :
       IF outcome = "timeout" THEN LifecycleRaise("create", LastId("pod"))
       ELSE /\ commands' = Append(commands, Command("create", LastId("pod")))
            /\ metrics' = Append(metrics,
                 LifecycleSample("create_container", outcome = "ok", LifecycleWarmup))
            /\ IF outcome = "ok"
               THEN /\ created' = Append(created, <<"container", NextId>>)
                    /\ pc' = AfterStep("create_container", "lc_start")
               ELSE created' = created /\ pc' = "lc_returned"
            /\ UNCHANGED << exc, raised_log, timed_out >>
  /\ UNCHANGED lifecycle_unchanged

\* lines 306-322: start and its sample; a failed start goes on
LifecycleStart ==
  /\ pc = "lc_start"
  /\ \E outcome \in CommandOutcomes :
       IF outcome = "timeout" THEN LifecycleRaise("start", LastId("container"))
       ELSE /\ commands' = Append(commands, Command("start", LastId("container")))
            /\ metrics' = Append(metrics,
                 LifecycleSample("start_container", outcome = "ok", LifecycleWarmup))
            /\ pc' = AfterStep("start_container", "lc_stop")
            /\ UNCHANGED << exc, raised_log, timed_out, created >>
  /\ UNCHANGED lifecycle_unchanged

\* lines 328-332: the first stop; a non-zero exit code is retried once
LifecycleStop ==
  /\ pc = "lc_stop"
  /\ \E outcome \in CommandOutcomes :
       IF outcome = "timeout" THEN LifecycleRaise("stop", LastId("container"))
       ELSE /\ commands' = Append(commands, Command("stop", LastId("container")))
            /\ IF outcome = "ok"
               THEN /\ metrics' = Append(metrics,
                         LifecycleSample("stop_container", TRUE, LifecycleWarmup))
                    /\ pc' = AfterStep("stop_container", "lc_rm")
               ELSE metrics' = metrics /\ pc' = "lc_stop_retry"
            /\ UNCHANGED << exc, raised_log, timed_out, created >>
  /\ UNCHANGED lifecycle_unchanged

\* lines 331-347: the second stop and the sample of the step
LifecycleStopRetry ==
  /\ pc = "lc_stop_retry"
  /\ \E outcome \in CommandOutcomes :
       IF outcome = "timeout" THEN LifecycleRaise("stop", LastId("container"))
       ELSE /\ commands' = Append(commands, Command("stop", LastId("container")))
            /\ metrics' = Append(metrics,
                 LifecycleSample("stop_container", outcome = "ok", LifecycleWarmup))
            /\ pc' = AfterStep("stop_container", "lc_rm")
            /\ UNCHANGED << exc, raised_log, timed_out, created >>
  /\ UNCHANGED lifecycle_unchanged

\* lines 350-354: the first rm; a non-zero exit code is retried once
LifecycleRm ==
  /\ pc = "lc_rm"
  /\ \E outcome \in CommandOutcomes :
       IF outcome = "timeout" THEN LifecycleRaise("rm", LastId("container"))
       ELSE /\ commands' = Append(commands, Command("rm", LastId("container")))
            /\ IF outcome = "ok"
               THEN /\ metrics' = Append(metrics,
                         LifecycleSample("remove_container", TRUE, LifecycleWarmup))
                    /\ pc' = "lc_returned"
               ELSE metrics' = metrics /\ pc' = "lc_rm_retry"
            /\ UNCHANGED << exc, raised_log, timed_out, created >>
  /\ UNCHANGED lifecycle_unchanged

\* lines 353-369: the second rm and the sample of the step
LifecycleRmRetry ==
  /\ pc = "lc_rm_retry"
  /\ \E outcome \in CommandOutcomes :
       IF outcome = "timeout" THEN LifecycleRaise("rm", LastId("container"))
       ELSE /\ commands' = Append(commands, Command("rm", LastId("container")))
            /\ metrics' = Append(metrics,
                 LifecycleSample("remove_container", outcome = "ok", LifecycleWarmup))
            /\ pc' = "lc_returned"
            /\ UNCHANGED << exc, raised_log, timed_out, created >>
  /\ UNCHANGED lifecycle_unchanged

\* ---------------------- CRIExecutor.teardown and _cleanup_created
CleanupCommand(verb, id) == [verb |-> verb, id |-> id, cleanup |-> TRUE]

\* the two verbs _cleanup_created issues for a recorded resource
CleanupVerbs(kind) ==
  IF kind = "container" THEN << "stop", "rm" >> ELSE << "stopp", "rmp" >>

\* cleanup in creation order
CleanupOrderForward(recorded) == [ k \in 1..Len(recorded) |-> k ]

\* for kind, _id in reversed(items)
CleanupOrder(recorded) == [ k \in 1..Len(recorded) |-> Len(recorded) + 1 - k ]

\* lines 382-400 for one recorded resource: nothing for an empty id, else
\* the first verb and, unless that command raised, the second; whatever
\* is raised is caught inside the loop
ItemCleanup(item, outcomes) ==
  IF item[2] = 0 THEN <<>>
  ELSE IF outcomes[1] = "timeout"
  THEN << CleanupCommand(CleanupVerbs(item[1])[1], item[2]) >>
  ELSE << CleanupCommand(CleanupVerbs(item[1])[1], item[2]),
          CleanupCommand(CleanupVerbs(item[1])[2], item[2]) >>

RECURSIVE CleanupCommands(_, _, _)
CleanupCommands(recorded, outcomes, k) ==
  IF k > Len(recorded) THEN <<>>
  ELSE ItemCleanup(recorded[CleanupOrder(recorded)[k]],
                   outcomes[CleanupOrder(recorded)[k]])
         \o CleanupCommands(recorded, outcomes, k + 1)

\* the commands of a cleanup that raised
CleanupTimeouts(recorded, outcomes) ==
  Cardinality({ c \in (1..Len(recorded)) \X {1, 2} :
                  /\ outcomes[c[1]][c[2]] = "timeout"
                  /\ (c[2] = 2 => outcomes[c[1]][1] # "timeout") })

\* lines 53-71 and 371-400: the run's teardown once the lifecycle call is
\* over.  The list is copied and emptied, every recorded resource is
\* cleaned up whatever its commands do, and the directory reference is
\* cleared in the finally block; nothing is raised.
CRITeardown ==
  /\ pc \in {"lc_returned", "lc_raised"}
  /\ pc' = "td_done"
  /\ teardown_calls' = teardown_calls + 1
  /\ cleanup_items' = created
  /\ created' = <<>>
  /\ \E outcomes \in [1..Len(created) -> [1..2 -> CommandOutcomes]] :
       /\ commands' = commands \o CleanupCommands(created, outcomes, 1)
       /\ timed_out' = timed_out + CleanupTimeouts(created, outcomes)
  /\ tmpdir' = 0
  /\ UNCHANGED << config, entry, i, metrics, tasks, errors, exc, result, escaped,
                  setup_calls, rst_calls, late_call, raised_log, call_log,
                  executor, duration_list, percentiles, test_results,
                  baseline_engine, processed_data, test_name >>

LifecycleNext ==
  \/ CRITeardown
  \/ LifecycleRunp
  \/ LifecycleCreate
  \/ LifecycleStart
  \/ LifecycleStop
  \/ LifecycleStopRetry
  \/ LifecycleRm
  \/ LifecycleRmRetry

LifecycleSpec == LifecycleInit /\ [][LifecycleNext]_vars

\* position of an operation, a verb or a requested step in the lifecycle
OperationIndex(operation) ==
  CHOOSE k \in 1..Len(LifecycleOperations) : LifecycleOperations[k] = operation
VerbIndex(verb) == CHOOSE k \in 1..Len(LifecycleVerbs) : LifecycleVerbs[k] = verb

\* the samples the caller of run_single_test receives
LifecycleReturned == IF pc = "lc_returned" THEN metrics ELSE <<>>

\* the sub-steps that were attempted: those a command was issued for
AttemptedSteps == { VerbIndex(commands[n].verb) : n \in 1..Len(commands) }

LifecycleOver == pc \in {"lc_returned", "lc_raised"}

\* the commands come in lifecycle order, create never follows a failed runp,
\* and the samples are a prefix of the operations ending at the requested
\* step or at a failed runp or create
LifecycleShape(samples) ==
  /\ \A n \in 1..(Len(commands) - 1) :
       VerbIndex(commands[n].verb) <= VerbIndex(commands[n + 1].verb)
  /\ \A n \in 1..Len(samples) : samples[n].operation = LifecycleOperations[n]
  /\ \/ Len(samples) = OperationIndex(test_name)
     \/ /\ Len(samples) \in {1, 2}
        /\ Len(samples) < OperationIndex(test_name)
        /\ ~samples[Len(samples)].success
  /\ \A n \in 1..Len(samples) :
       (n <= 2 /\ ~samples[n].success) => Len(samples) = n

\* C28: a lifecycle call issues runp, create, start, stop, rm in this order
\* and hands back one sample per attempted sub-step: a prefix of the
\* operations that ends at the requested step, or at the first failed runp
\* or create; a failed start or stop does not end the call early.
C28_LifecycleSamples ==
  LifecycleOver =>
    /\ Len(LifecycleReturned) = Cardinality(AttemptedSteps)
    /\ LifecycleShape(LifecycleReturned)

\* the same for the calls that return
LifecycleReturnsShape ==
  (pc = "lc_returned") =>
    /\ Len(metrics) = Cardinality(AttemptedSteps)
    /\ LifecycleShape(metrics)

\* a call for remove_container whose start and first stop failed reaches rm
LifecycleGoesOn ==
  /\ pc = "lc_returned"
  /\ test_name = "remove_container"
  /\ Len(metrics) = 5
  /\ ~metrics[3].success
  /\ ~metrics[4].success
  /\ Len(commands) = 7

\* the cleanup commands teardown issued, in order
Cleanup == SelectSeq(commands, LAMBDA c : "cleanup" \in DOMAIN c)

\* C29: CRIExecutor.teardown raises nothing whatever its commands do; it
\* issues cleanup for every recorded pod and container, the later created
\* first (a container before its pod), and leaves the tracking list empty
\* and the directory reference cleared.
C29_TeardownCleansUp ==
  (pc = "td_done") =>
    /\ escaped = ""
    /\ created = <<>>
    /\ tmpdir = 0
    /\ \A k \in 1..Len(cleanup_items) :
         \E n \in 1..Len(Cleanup) :
           /\ Cleanup[n].id = cleanup_items[k][2]
           /\ Cleanup[n].verb = CleanupVerbs(cleanup_items[k][1])[1]
    /\ \A n \in 1..Len(Cleanup) :
         \E k \in 1..Len(cleanup_items) :
           /\ Cleanup[n].id = cleanup_items[k][2]
           /\ Cleanup[n].verb \in { CleanupVerbs(cleanup_items[k][1])[1],
                                    CleanupVerbs(cleanup_items[k][1])[2] }
    /\ \A n \in 1..(Len(Cleanup) - 1) : Cleanup[n].id >= Cleanup[n + 1].id

\* two pods with their containers were recorded, a cleanup command timed
\* out, and all four were cleaned up
C29_Witness ==
  /\ pc = "td_done"
  /\ Len(cleanup_items) = 4
  /\ timed_out > 0
  /\ raised_log = <<>>
  /\ { Cleanup[n].id : n \in 1..Len(Cleanup) } = 1..4
  /\ Len(Cleanup) < 8

\* C30: one run_test invocation calls setup exactly once, before any
\* run_single_test call, in sequential and in concurrent mode alike.
C30_SetupExactlyOnce ==
  (entry = "run_test") =>
    /\ setup_calls <= 1
    /\ (rst_calls > 0 \/ Ended) => setup_calls = 1

\* ------- ClientExecutor.run_single_test called by several tasks at once
\* Tasks that run the loop of _run_concurrent_iteration on one executor with
\* the plain test name in the context, as a gather over the executor's
\* run_single_test does.  (The tasks run_concurrent_test itself creates pass
\* a suffixed name: DispatchSpec.)  The variable created holds
\* self.test_containers; a container name is <<task, call>> of the call
\* that created it, unique as the uuid of line 191 is.
SharedTests == { "stop_container", "remove_container" }

\* two tasks
SharedConfigs == { c \in Configs : c.concurrency = 2 /\ c.warmup_iterations = 0 }

NoContainer == << >>

ClientTask(status, n, ms, name) ==
  [ status |-> status, i |-> n, metrics |-> ms, container_name |-> name ]

\* one access of self.test_containers by a task
Access(t, kind, name) == [ task_id |-> t - 1, access |-> kind, container_name |-> name ]

NoContainerAvailable == "No container available"

SharedInit ==
  /\ pc = "ct_gather"
  /\ entry = "run_single_test"
  /\ executor = "client"
  /\ config \in SharedConfigs
  /\ i = 0
  /\ metrics = <<>>
  /\ tasks = [t \in 1..config.concurrency |-> ClientTask("ready", 0, <<>>, NoContainer)]
  /\ errors = <<>>
  /\ exc = ""
  /\ result = NoResult
  /\ escaped = ""
  /\ setup_calls = 1
  /\ teardown_calls = 0
  /\ rst_calls = 0
  /\ late_call = FALSE
  /\ raised_log = <<>>
  /\ call_log = <<>>
  /\ timed_out = 0
  /\ duration_list = <<>>
  /\ percentiles = Nothing
  /\ test_results = <<>>
  /\ baseline_engine = ""
  /\ processed_data = Nothing
  /\ test_name \in SharedTests
  /\ created = <<>>
  /\ tmpdir = 0
  /\ commands = <<>>
  /\ cleanup_items = <<>>

shared_unchanged ==
  << config, entry, pc, i, metrics, errors, exc, result, escaped, setup_calls,
     teardown_calls, late_call, raised_log, executor, timed_out,
     duration_list, percentiles, test_results, baseline_engine,
     processed_data, test_name, tmpdir, commands, cleanup_items >>

\* The event loop runs the tasks first in the order of their creation
\* (create_task), each up to its first await, before any awaited command
\* can be over.
Begun(t) == tasks[t].status # "ready" \/ tasks[t].i > 0
AllBegun == \A t \in 1..Len(tasks) : Begun(t)

\* the call of task t is over: its samples are kept, the loop goes on
CallOver(t, samples) ==
  tasks' = [tasks EXCEPT ![t] =
              ClientTask("ready", @.i + 1, @.metrics \o samples, NoContainer)]

\* the container is chosen: stop_container starts it (lines 296-299),
\* remove_container takes it off the list when it is the last one (lines
\* 363-364) and issues rm
Chosen(t, list, name, log) ==
  IF test_name = "stop_container"
  THEN /\ tasks' = [tasks EXCEPT ![t].status = "starting", ![t].container_name = name]
       /\ created' = list
       /\ call_log' = log
  ELSE /\ tasks' = [tasks EXCEPT ![t].status = "removing", ![t].container_name = name]
       /\ created' = SubSeq(list, 1, Len(list) - 1)
       /\ call_log' = Append(log, Access(t, "pop", name))

\* lines 281-283: the call begins; a non-empty list yields its last name,
\* an empty one makes the task create a container first
ClientBegin(t) ==
  /\ tasks[t].status = "ready"
  /\ tasks[t].i < config.iterations
  /\ \A u \in 1..(t - 1) : Begun(u)
  /\ rst_calls' = rst_calls + 1
  /\ IF created # <<>>
     THEN Chosen(t, created, created[Len(created)],
                 Append(call_log, Access(t, "select", created[Len(created)])))
     ELSE /\ tasks' = [tasks EXCEPT ![t].status = "creating"]
          /\ call_log' = Append(call_log, Access(t, "select", NoContainer))
          /\ UNCHANGED created
  /\ UNCHANGED shared_unchanged

\* lines 284-286 and 187-231: the create command is over; on success the
\* name is appended and the last name of the list is chosen
ClientCreated(t) ==
  /\ tasks[t].status = "creating"
  /\ AllBegun
  /\ \E outcome \in CommandOutcomes :
       IF outcome = "ok"
       THEN LET name == << t - 1, tasks[t].i >>
                list == Append(created, name)
            IN  Chosen(t, list, list[Len(list)],
                       Append(Append(call_log, Access(t, "append", name)),
                              Access(t, "select", list[Len(list)])))
       ELSE /\ CallOver(t, << ExecSample(FALSE, 0, FALSE, StrOf(NoContainerAvailable)) >>)
            /\ UNCHANGED << created, call_log >>
  /\ UNCHANGED << shared_unchanged, rst_calls >>

\* lines 296-299: the start command is over, whatever it did
ClientStarted(t) ==
  /\ tasks[t].status = "starting"
  /\ AllBegun
  /\ tasks' = [tasks EXCEPT ![t].status = "stopping"]
  /\ UNCHANGED << shared_unchanged, rst_calls, created, call_log >>

\* lines 318-343 and 366-391: the stop or rm command is over and its sample
\* is recorded
ClientFinished(t) ==
  /\ tasks[t].status \in {"stopping", "removing"}
  /\ AllBegun
  /\ \E outcome \in CommandOutcomes :
       CallOver(t, << IF outcome = "ok" THEN ExecSample(TRUE, 1, FALSE, NoMessage)
                      ELSE IF outcome = "nonzero"
                      THEN ExecSample(FALSE, 1, FALSE, StrOf(CommandStderr))
                      ELSE ExecSample(FALSE, 1, FALSE, StrOf(TimeoutErrorText)) >>)
  /\ UNCHANGED << shared_unchanged, rst_calls, created, call_log >>

\* line 293: the task has run all its iterations
ClientTaskDone(t) ==
  /\ tasks[t].status = "ready"
  /\ tasks[t].i >= config.iterations
  /\ tasks' = [tasks EXCEPT ![t].status = "done"]
  /\ UNCHANGED << shared_unchanged, rst_calls, created, call_log >>

SharedNext ==
  \/ \E t \in 1..Len(tasks) : ClientBegin(t)
  \/ \E t \in 1..Len(tasks) : ClientCreated(t)
  \/ \E t \in 1..Len(tasks) : ClientStarted(t)
  \/ \E t \in 1..Len(tasks) : ClientFinished(t)
  \/ \E t \in 1..Len(tasks) : ClientTaskDone(t)

SharedSpec == SharedInit /\ [][SharedNext]_vars

NoSiblingContainer ==
  \A n \in 1..Len(call_log) :
    (call_log[n].access = "select" /\ call_log[n].container_name # NoContainer)
      => call_log[n].container_name[1] = call_log[n].task_id
====
